---- MODULE Spec2Model ----
(***************************************************************************)
(* gosaidsno: aspect-oriented advice around Go functions.                  *)
(*                                                                         *)
(* The model covers the advice chain and its ordering primitive            *)
(* (advice.go, utils/sort_utils.go), the execution context (context.go),   *)
(* the registry (registry.go) and the execution engine with its typed      *)
(* adapters (wrap.go).  In Spec one invocation is in flight at a time and   *)
(* the registry is configured between invocations (advice is added at      *)
(* startup and read during calls; a chain's slices are not synchronized).  *)
(* SpecOrder exercises the ordering of one phase, SpecWorkflow a chain     *)
(* with advice in every phase, SpecContext the result slots of a Context,  *)
(* SpecRegistry the registry's methods called by concurrent goroutines,    *)
(* statement by statement, under its sync.RWMutex, and SpecMust the        *)
(* panicking variants MustRegister and MustAddAdvice.  SpecInFlight runs   *)
(* invocations while another goroutine changes the registry, and           *)
(* SpecNested, with fairness, invocations whose handlers and targets call  *)
(* the registry themselves.                                                *)
(***************************************************************************)
EXTENDS Integers, Sequences, FiniteSets, TLC

\* ------------------------------------------------------------------ bounds

\* Total number of advice held by all chains of the registry.
MaxAdvice == 3
\* Number of chains the registry creates over a behaviour.
MaxChains == 2
\* SpecOrder: number of advice added to the phase, and the priority range.
\* SpecContext: number of SetResult/GetResult calls on the Context.
MaxLen == 4
MaxPrio == 3
\* Goroutines calling the registry concurrently.
MaxThreads == 2
\* SpecInFlight, SpecNested: registry calls the handlers and the target of
\* one invocation make.
MaxNested == 1

\* --------------------------------------------------------------- constants

Nil == "nil"

\* utils/sort_utils.go: SortAscending = iota, SortDescending
SortAscending == 0
SortDescending == 1

\* advice.go: the AdviceType enumeration
Before == "Before"
After == "After"
Around == "Around"
AfterReturning == "AfterReturning"
AfterThrowing == "AfterThrowing"
AdviceTypes == {Before, After, Around, AfterReturning, AfterThrowing}

\* Registered names used by the callers; "" is the invalid name.
Names == {"", "f"}
\* The keys the registry map is exercised with.
RegistryNames == Names \cup {"g"}

\* Values a target or a handler produces.  ZeroValue is the zero value of
\* the adapter's result type R ("var result R").
ZeroValue == "zero"
TargetValue == "v7"
AdviceValue == "v42"
ClobberValue == "v99"
\* A value whose dynamic type is not the adapter's result type R.
MistypedValue == "notAnR"
\* The type assertion x.(R) succeeds.
HasTypeR(v) == v # MistypedValue
\* The run-time panic of a failed type assertion.
TypeAssertionError == "interface conversion"
\* Errors: returned by the target, returned by a handler, stored into
\* ctx.Error by a handler, stored into ctx.Error by an After handler.
TargetError == "errTarget"
HandlerError == "errHandler"
AdviceError == "errAdvice"
ClobberError == "errClobber"
\* The value a target panics with.
PanicV == "boom"

\* fmt.Errorf("<prefix>: %w", err)
Errorf(prefix, e) == prefix \o ": " \o e

VARIABLES entries, chains,
          pc, fn, adapter, target, chain, ctx, result, err, fault,
          trace, calls, outcome, prior, nested, unsynced, copied, order,
          mu, thr, created, succeeded, added

regVars == <<entries, chains>>
invVars == <<pc, fn, adapter, target, chain, ctx, result, err, fault,
             trace, calls, outcome, prior, nested, unsynced, copied>>
\* The same without unsynced.
callVars == <<pc, fn, adapter, target, chain, ctx, result, err, fault,
              trace, calls, outcome, prior, nested, copied>>
\* The registry's lock, the goroutines calling the registry, and the
\* bookkeeping of what they did since a name's chain was made: chains made,
\* Register calls that succeeded, AddAdvice calls that succeeded.
lockVars == <<mu, thr, created, succeeded, added>>
vars == <<entries, chains, pc, fn, adapter, target, chain, ctx, result, err,
          fault, trace, calls, outcome, prior, nested, unsynced, copied, order, mu,
          thr,
          created, succeeded, added>>

\* ---------------------------------------------------- utils.BubbleSort

\* less(a, b) of executeAdviceList: a.Priority < b.Priority
Less(a, b) == a.Priority < b.Priority

Swap(items, i, j) == [items EXCEPT ![i] = items[j], ![j] = items[i]]

\* One comparison of the inner loop (0-based leftIndex, lastIndex):
\* compares items[lastIndex] with items[rightIndex] and swaps those two.
ShouldSwap(items, order_, lastIndex, rightIndex) ==
    \/ order_ = SortAscending /\ ~Less(items[lastIndex + 1], items[rightIndex + 1])
    \/ order_ = SortDescending /\ Less(items[lastIndex + 1], items[rightIndex + 1])

RECURSIVE InnerLoop(_, _, _, _, _)
InnerLoop(items, order_, lastIndex, unsortedEnd, leftIndex) ==
    IF leftIndex < unsortedEnd
    THEN LET rightIndex == leftIndex + 1
             next == IF ShouldSwap(items, order_, lastIndex, rightIndex)
                     THEN Swap(items, lastIndex + 1, rightIndex + 1)
                     ELSE items
         IN InnerLoop(next, order_, lastIndex, unsortedEnd, leftIndex + 1)
    ELSE items

RECURSIVE OuterLoop(_, _, _, _)
OuterLoop(items, order_, lastIndex, i) ==
    IF i < lastIndex
    THEN OuterLoop(InnerLoop(items, order_, lastIndex, lastIndex - i, 0),
                   order_, lastIndex, i + 1)
    ELSE items

BubbleSort(items, order_) == OuterLoop(items, order_, Len(items) - 1, 0)

\* ------------------------------------------------------------- Context

\* Metadata: make(map[string]any), a set of <<key, value>> pairs with one
\* pair per key.
NoMetadata == {}
MetadataPut(m, key, value) == {p \in m : p[1] # key} \cup {<<key, value>>}

NewContext(name, args) ==
    [FunctionName |-> name, Args |-> args, Metadata |-> NoMetadata,
     Results |-> <<>>, Error |-> Nil, PanicValue |-> Nil, Skipped |-> FALSE]

RECURSIVE Extend(_, _)
Extend(results, index) ==
    IF Len(results) <= index THEN Extend(Append(results, Nil), index) ELSE results

\* Faulty variant: a value beyond the end is appended, not stored at its index.
SetResult_Append(c, index, value) ==
    IF index < 0 THEN c
    ELSE IF index >= Len(c.Results) THEN [c EXCEPT !.Results = Append(@, value)]
    ELSE [c EXCEPT !.Results = [@ EXCEPT ![index + 1] = value]]

\* Context.SetResult
SetResult(c, index, value) ==
    IF index < 0 THEN c
    ELSE [c EXCEPT !.Results = [Extend(c.Results, index) EXCEPT ![index + 1] = value]]

GetResult(c, index) ==
    IF index < 0 \/ index >= Len(c.Results) THEN Nil ELSE c.Results[index + 1]

HasPanic(c) == c.PanicValue # Nil

\* --------------------------------------------------------- AdviceChain

NewAdviceChain ==
    [before |-> <<>>, after |-> <<>>, around |-> <<>>,
     afterReturning |-> <<>>, afterThrowing |-> <<>>]

ChainAdd(ac, advice) ==
    CASE advice.Type = Before -> [ac EXCEPT !.before = Append(@, advice)]
      [] advice.Type = After -> [ac EXCEPT !.after = Append(@, advice)]
      [] advice.Type = Around -> [ac EXCEPT !.around = Append(@, advice)]
      [] advice.Type = AfterReturning -> [ac EXCEPT !.afterReturning = Append(@, advice)]
      [] advice.Type = AfterThrowing -> [ac EXCEPT !.afterThrowing = Append(@, advice)]
      [] OTHER -> ac

HasAround(ac) == Len(ac.around) > 0

\* Faulty variant: Count leaves the After list out.
ChainCount_NoAfter(ac) ==
    Len(ac.before) + Len(ac.around) + Len(ac.afterReturning) + Len(ac.afterThrowing)

\* AdviceChain.Count
ChainCount(ac) ==
    Len(ac.before) + Len(ac.after) + Len(ac.around)
        + Len(ac.afterReturning) + Len(ac.afterThrowing)

\* What a handler does to the context, and the error it returns.
\*   ok       does nothing                     log      appends itself to order
\*   fail     returns an error                 setErr   ctx.Error = e
\*   skip     ctx.SetResult(0, v); ctx.Skipped = true      (cache hit)
\*   skipErr  ctx.SetResult(0, zero); ctx.Error = e; ctx.Skipped = true
\*   clobber  ctx.SetResult(0, w); ctx.Error = e2; ctx.Skipped = true
\*   skipBad  ctx.SetResult(0, x); ctx.Skipped = true, x not of type R
\*   setMeta  ctx.Metadata["userId"] = "user_123"
\*   setResult   ctx.SetResult(0, v), Skipped left alone
\*   setSkipped  ctx.Skipped = true
\*   skipFault   ctx.PanicValue = p; ctx.Skipped = true
HandlerCtx(kind, c) ==
    CASE kind = "setMeta" -> [c EXCEPT !.Metadata = MetadataPut(@, "userId", "user_123")]
      [] kind = "setResult" -> SetResult(c, 0, AdviceValue)
      [] kind = "setSkipped" -> [c EXCEPT !.Skipped = TRUE]
      [] kind = "skipFault" -> [c EXCEPT !.PanicValue = PanicV, !.Skipped = TRUE]
      [] kind = "skip" -> [SetResult(c, 0, AdviceValue) EXCEPT !.Skipped = TRUE]
      [] kind = "skipErr" ->
            [SetResult(c, 0, ZeroValue) EXCEPT !.Error = AdviceError, !.Skipped = TRUE]
      [] kind = "skipBad" -> [SetResult(c, 0, MistypedValue) EXCEPT !.Skipped = TRUE]
      [] kind = "setErr" -> [c EXCEPT !.Error = AdviceError]
      [] kind = "clobber" ->
            [SetResult(c, 0, ClobberValue) EXCEPT !.Error = ClobberError, !.Skipped = TRUE]
      [] OTHER -> c

HandlerErr(kind) == IF kind = "fail" THEN HandlerError ELSE Nil

HandlerLog(advice, ord) ==
    IF advice.Handler = "log" THEN Append(ord, <<advice.Priority, advice.Tag>>) ELSE ord

\* Faulty variant: the loop goes on after a handler's error.
StopsPhase_Never(e) == FALSE

\* if err := advice.Handler(ctx); err != nil { return err }
StopsPhase(e) == e # Nil

\* The loop of executeAdviceList over the sorted copy: every handler gets
\* the same context; the first error ends the loop.
RECURSIVE RunHandlers(_, _, _, _)
RunHandlers(sorted, i, c, ord) ==
    IF i > Len(sorted) THEN [ctx |-> c, err |-> Nil, order |-> ord, ran |-> i - 1]
    ELSE LET advice == sorted[i]
             c2 == HandlerCtx(advice.Handler, c)
             ord2 == HandlerLog(advice, ord)
             e == HandlerErr(advice.Handler)
         IN IF StopsPhase(e) THEN [ctx |-> c2, err |-> e, order |-> ord2, ran |-> i]
            ELSE RunHandlers(sorted, i + 1, c2, ord2)

\* sortedAdviceList := make([]Advice, len(adviceList)); copy(...): the sort
\* works on the copy.
SortedAdvice(adviceList) == BubbleSort(adviceList, SortDescending)

\* Faulty variant: the chain's own slice is sorted in place.
StoredAfter_InPlace(adviceList) == SortedAdvice(adviceList)

\* What the chain's slice holds after executeAdviceList: the sort having
\* worked on a copy, what it held before.
StoredAfter(adviceList) == adviceList

\* The chain with the slice of one phase replaced.
WithPhaseList(ac, phase, list) ==
    CASE phase = Before -> [ac EXCEPT !.before = list]
      [] phase = After -> [ac EXCEPT !.after = list]
      [] phase = Around -> [ac EXCEPT !.around = list]
      [] phase = AfterReturning -> [ac EXCEPT !.afterReturning = list]
      [] phase = AfterThrowing -> [ac EXCEPT !.afterThrowing = list]

ExecuteAdviceList(adviceList, c, ord) ==
    RunHandlers(SortedAdvice(adviceList), 1, c, ord)

PhaseList(ac, phase) ==
    CASE phase = Before -> ac.before
      [] phase = After -> ac.after
      [] phase = Around -> ac.around
      [] phase = AfterReturning -> ac.afterReturning
      [] phase = AfterThrowing -> ac.afterThrowing

ExecutePhase(ac, phase, c, ord) == ExecuteAdviceList(PhaseList(ac, phase), c, ord)


\* ------------------------------------------------------------ Registry

\* registry.entries[name], 0 when the name is no key of the map.
IsRegistered(name) == entries[name] # 0

RECURSIVE SumCounts(_, _)
SumCounts(heap, i) ==
    IF i > Len(heap) THEN 0 ELSE ChainCount(heap[i]) + SumCounts(heap, i + 1)

TotalAdvice == SumCounts(chains, 1)

\* The advice the callers add.
AdviceInputs ==
    { [Type |-> Before, Priority |-> 10, Handler |-> "ok", Tag |-> 0],
      [Type |-> Before, Priority |-> 50, Handler |-> "fail", Tag |-> 0],
      [Type |-> Before, Priority |-> 30, Handler |-> "setErr", Tag |-> 0],
      [Type |-> Around, Priority |-> 10, Handler |-> "ok", Tag |-> 0],
      [Type |-> Around, Priority |-> 50, Handler |-> "fail", Tag |-> 0],
      [Type |-> Around, Priority |-> 100, Handler |-> "skip", Tag |-> 0],
      [Type |-> Around, Priority |-> 100, Handler |-> "skipErr", Tag |-> 0],
      [Type |-> AfterReturning, Priority |-> 100, Handler |-> "ok", Tag |-> 0],
      [Type |-> AfterThrowing, Priority |-> 100, Handler |-> "ok", Tag |-> 0],
      [Type |-> After, Priority |-> 100, Handler |-> "ok", Tag |-> 0],
      [Type |-> After, Priority |-> 50, Handler |-> "clobber", Tag |-> 0] }

\* Registry.Register: an empty or already registered name is an error and
\* changes nothing; otherwise the name gets a new empty chain.
Register(name) ==
    /\ pc = "idle"
    /\ IF name = "" \/ IsRegistered(name)
       THEN UNCHANGED regVars
       ELSE /\ Len(chains) < MaxChains
            /\ chains' = Append(chains, NewAdviceChain)
            /\ entries' = [entries EXCEPT ![name] = Len(chains) + 1]
    /\ UNCHANGED <<invVars, order>>
    /\ UNCHANGED lockVars

\* Registry.AddAdvice: appends to the chain of a registered name.
AddAdvice(name, advice) ==
    /\ pc = "idle"
    /\ TotalAdvice < MaxAdvice
    /\ IF name = "" \/ ~IsRegistered(name)
       THEN UNCHANGED regVars
       ELSE /\ chains' = [chains EXCEPT ![entries[name]] = ChainAdd(@, advice)]
            /\ UNCHANGED entries
    /\ UNCHANGED <<invVars, order>>
    /\ UNCHANGED lockVars

\* Faulty variant: the chain of the invocation in flight goes with its entry.
Collect_Registered(heap, ents, held) ==
    [i \in 1..Len(heap) |->
        IF \E n \in RegistryNames : ents[n] = i THEN heap[i] ELSE NewAdviceChain]

\* A chain that neither the registry nor the invocation in flight refers to
\* is garbage: its cell keeps no content.
Collect(heap, ents, held) ==
    [i \in 1..Len(heap) |->
        IF i = held \/ (\E n \in RegistryNames : ents[n] = i) THEN heap[i] ELSE NewAdviceChain]

\* Registry.Unregister: delete(registry.entries, name).
Unregister(name) ==
    /\ pc = "idle"
    /\ entries' = [entries EXCEPT ![name] = 0]
    /\ chains' = Collect(chains, entries', chain)
    /\ UNCHANGED <<invVars, order>>
    /\ UNCHANGED lockVars

\* Registry.Clear: r.entries = make(map[string]*AdviceChain).
Clear ==
    /\ pc = "idle"
    /\ entries' = [n \in RegistryNames |-> 0]
    /\ chains' = Collect(chains, entries', chain)
    /\ UNCHANGED <<invVars, order>>
    /\ UNCHANGED lockVars

\* ------------------------------------------------------------ Adapters

Adapters ==
    {"Wrap0", "Wrap0R", "Wrap0RE", "Wrap1", "Wrap1R", "Wrap1RE", "Wrap1E",
     "Wrap2", "Wrap2R", "Wrap2RE", "Wrap2E", "Wrap3RE"}

\* The adapter's target returns a value (R) / an error (E).
ReturnsValue(a) ==
    a \in {"Wrap0R", "Wrap0RE", "Wrap1R", "Wrap1RE", "Wrap2R", "Wrap2RE", "Wrap3RE"}
ReturnsError(a) ==
    a \in {"Wrap0RE", "Wrap1RE", "Wrap1E", "Wrap2RE", "Wrap2E", "Wrap3RE"}

\* The adapters that read ctx.Results[0] / ctx.Error back after the engine
\* returned ("If Around advice set a result and skipped execution, use that
\* result").
UsesCtxResult(a) == a \in {"Wrap0R", "Wrap0RE", "Wrap1R"}
UsesCtxError(a) == a = "Wrap0RE"

\* The arguments the adapter boxes for the engine: none, a, (a, b), (a, b, c).
CallArgs(a) ==
    CASE a \in {"Wrap0", "Wrap0R", "Wrap0RE"} -> <<>>
      [] a \in {"Wrap1", "Wrap1R", "Wrap1RE", "Wrap1E"} -> <<"a">>
      [] a \in {"Wrap2", "Wrap2R", "Wrap2RE", "Wrap2E"} -> <<"a", "b">>
      [] OTHER -> <<"a", "b", "c">>

\* What the wrapped function does: returns normally, returns an error
\* (adapters with an error result only), or panics.
TargetBehaviours(a) == {"ok", "panic"} \cup (IF ReturnsError(a) THEN {"err"} ELSE {})

\* The closure the adapter hands to executeWithAdvice, for a target that
\* does not panic: it stores the target's results in the adapter's locals
\* and in the context.
TargetFn(a, tgt, c) ==
    LET r == IF ~ReturnsValue(a) THEN Nil
             ELSE IF tgt = "ok" THEN TargetValue ELSE ZeroValue
        e == IF tgt = "err" THEN TargetError ELSE Nil
        c1 == IF ReturnsValue(a) THEN SetResult(c, 0, r) ELSE c
        c2 == IF ReturnsError(a) THEN [c1 EXCEPT !.Error = e] ELSE c1
    IN [ctx |-> c2, result |-> r, err |-> e]

\* The adapter's code after executeWithAdvice returned ctx.
UnboxResult(a, c, r) ==
    IF UsesCtxResult(a) /\ Len(c.Results) > 0 /\ c.Results[1] # Nil
    THEN c.Results[1] ELSE r

\* result = ctx.Results[0].(R) panics when the stored value is no R.
AssertionFails(a, c) ==
    UsesCtxResult(a) /\ Len(c.Results) > 0 /\ c.Results[1] # Nil /\ ~HasTypeR(c.Results[1])

UnboxError(a, c, e) ==
    IF UsesCtxError(a) /\ c.Error # Nil THEN c.Error ELSE e

\* -------------------------------------------------- executeWithAdvice

\* The goroutine that runs the invocation.
Invoker == 1

\* Faulty variant: a phase in progress iterates over the chain's own slice.
Visible_Live == {chains[chain]} \cup unsynced
\* What a phase can find when it reads the slices of its chain, which it
\* does without the registry's lock: the chain as it is, or as it was before
\* an append by another goroutine that nothing orders before the read
\* (unsynced holds those earlier contents; the two are a data race).  A
\* phase in progress iterates over the copy it made when it started (copied).
Visible == IF copied # {} THEN copied ELSE {chains[chain]} \cup unsynced

\* History of the invocation in flight: one event per phase execution and
\* per target call, with the context the phase received (in) and left
\* (out), the number of handlers it invoked and the error it returned.
Event(phase, cin, cout, n, e) ==
    [phase |-> phase, in |-> cin, out |-> cout, ran |-> n, ret |-> e]

\* Faulty variant: AfterReturning runs whatever the context holds.
AfterReturningGate_Always(c) == TRUE

\* ctx.Error == nil && !ctx.HasPanic()
AfterReturningGate(c) == c.Error = Nil /\ ~HasPanic(c)

\* Faulty variant: a skipped call runs AfterReturning whatever the context
\* holds.
SkippedReturningGate_Always(c) == TRUE

\* On the skip branch: if ctx.Error == nil && !ctx.HasPanic()
SkippedReturningGate(c) == c.Error = Nil /\ ~HasPanic(c)

\* Faulty variant: the Skipped flag is ignored.
SkipTarget_Never(c) == FALSE

\* if ctx.Skipped { ... return ctx }
SkipTarget(c) == c.Skipped

\* Faulty variant: the handler's error is raised as it is, not wrapped.
BeforeFailure_Plain(e) == e

\* panic(fmt.Errorf("before advice failed: %w", err)) and its Around twin
BeforeFailure(e) == Errorf("before advice failed", e)
AroundFailure(e) == Errorf("around advice failed", e)

\* Faulty variant: After is called inline, not deferred, so a panic passes it by.
PcAfterRecover_Done == "done"

\* Faulty variant: a panic is treated as the end of the call, and the
\* AfterReturning gate decides.
PcOnPanic_Returning == "afterReturning"

\* Deferred functions run last-in first-out: a panic in the body reaches the
\* recover function first, and the After function runs after it.
PcOnPanic == "recover"
PcAfterRecover == "after"

\* Faulty variant: the recover function swallows the panic.
Repanic_Swallow(r) == Nil

\* Faulty variant: the recover function hands AfterThrowing a Context of its
\* own.
Recovered_Copy(c, r) == [NewContext(c.FunctionName, c.Args) EXCEPT !.PanicValue = r]

\* The recover function: ctx.PanicValue = r
Recovered(c, r) == [c EXCEPT !.PanicValue = r]
\* panic(r)
Repanic(r) == r

\* Faulty variant: the Context comes from a pool, its metadata map still
\* holding what the invocation before stored.
Call_Pooled(name, a, tgt) ==
    /\ pc = "idle"
    /\ tgt \in TargetBehaviours(a)
    /\ fn' = name
    /\ adapter' = a
    /\ target' = tgt
    /\ ctx' = [NewContext(name, CallArgs(a)) EXCEPT !.Metadata = prior]
    /\ result' = IF ReturnsValue(a) THEN ZeroValue ELSE Nil
    /\ err' = Nil
    /\ IF name = "" \/ ~IsRegistered(name)
       THEN pc' = "fast" /\ chain' = 0
       ELSE pc' = "before" /\ chain' = entries[name]
    /\ UNCHANGED <<regVars, fault, trace, calls, outcome, order>>
    /\ copied' = {}
    /\ UNCHANGED <<lockVars, prior, nested, unsynced>>

\* Faulty variant: the adapter keeps what the lookup gave when it was built,
\* before its name was registered: no chain.
Call_Unguarded(name, a, tgt) ==
    /\ pc = "idle"
    /\ tgt \in TargetBehaviours(a)
    /\ fn' = name
    /\ adapter' = a
    /\ target' = tgt
    /\ ctx' = NewContext(name, CallArgs(a))
    /\ result' = IF ReturnsValue(a) THEN ZeroValue ELSE Nil
    /\ err' = Nil
    /\ pc' = "fast" /\ chain' = 0
    /\ UNCHANGED <<regVars, fault, trace, calls, outcome, order>>
    /\ copied' = {}
    /\ UNCHANGED <<lockVars, prior, nested, unsynced>>

\* The adapter is called: executeWithAdvice looks the chain up in the
\* registry and creates the context.
Call(name, a, tgt) ==
    /\ pc = "idle"
    /\ tgt \in TargetBehaviours(a)
    /\ fn' = name
    /\ adapter' = a
    /\ target' = tgt
    /\ ctx' = NewContext(name, CallArgs(a))
    /\ result' = IF ReturnsValue(a) THEN ZeroValue ELSE Nil
    /\ err' = Nil
    /\ IF name = "" \/ ~IsRegistered(name)
       THEN pc' = "fast" /\ chain' = 0
       ELSE pc' = "before" /\ chain' = entries[name]
    /\ UNCHANGED <<regVars, fault, trace, calls, outcome, order>>
    /\ copied' = {}
    /\ UNCHANGED <<lockVars, prior, nested, unsynced>>

\* Faulty variant: the fast path recovers the target's panic and returns.
FastPath_Contained ==
    /\ pc = "fast"
    /\ calls' = calls + 1
    /\ IF target = "panic"
       THEN /\ ctx' = Recovered(ctx, PanicV)
            /\ pc' = "unbox"
            /\ trace' = Append(trace, Event("Target", ctx, ctx, 0, Nil))
            /\ UNCHANGED <<result, err, fault, outcome>>
       ELSE LET t == TargetFn(adapter, target, ctx)
            IN /\ ctx' = t.ctx
               /\ trace' = Append(trace, Event("Target", ctx, t.ctx, 0, t.err))
               /\ result' = t.result
               /\ err' = t.err
               /\ pc' = "unbox"
               /\ UNCHANGED <<fault, outcome>>
    /\ UNCHANGED <<regVars, fn, adapter, target, chain, order>>
    /\ copied' = {}
    /\ UNCHANGED <<lockVars, prior, nested, unsynced>>

\* No chain: targetFn(ctx); return ctx, with no deferred function.
FastPath ==
    /\ pc = "fast"
    /\ calls' = calls + 1
    /\ IF target = "panic"
       THEN /\ fault' = PanicV
            /\ pc' = "done"
            /\ outcome' = "panic"
            /\ trace' = Append(trace, Event("Target", ctx, ctx, 0, Nil))
            /\ UNCHANGED <<ctx, result, err>>
       ELSE LET t == TargetFn(adapter, target, ctx)
            IN /\ ctx' = t.ctx
               /\ trace' = Append(trace, Event("Target", ctx, t.ctx, 0, t.err))
               /\ result' = t.result
               /\ err' = t.err
               /\ pc' = "unbox"
               /\ UNCHANGED <<fault, outcome>>
    /\ UNCHANGED <<regVars, fn, adapter, target, chain, order>>
    /\ copied' = {}
    /\ UNCHANGED <<lockVars, prior, nested, unsynced>>

ExecuteBefore ==
    /\ pc = "before"
    /\ \E seen \in Visible :
          LET r == ExecutePhase(seen, Before, ctx, order)
          IN /\ ctx' = r.ctx
             /\ order' = r.order
             /\ trace' = Append(trace, Event(Before, ctx, r.ctx, r.ran, r.err))
             /\ IF r.err # Nil
                THEN fault' = BeforeFailure(r.err) /\ pc' = PcOnPanic
                ELSE pc' = "checkAround" /\ UNCHANGED fault
    /\ UNCHANGED <<regVars, fn, adapter, target, chain, result, err, calls, outcome>>
    /\ copied' = {}
    /\ UNCHANGED <<lockVars, prior, nested, unsynced>>

\* Faulty variant: the Around phase is never entered.
CheckAround_NoAround ==
    /\ pc = "checkAround"
    /\ pc' = "target"
    /\ UNCHANGED <<regVars, fn, adapter, target, chain, ctx, result, err, fault,
                   trace, calls, outcome, order>>
    /\ copied' = {}
    /\ UNCHANGED <<lockVars, prior, nested, unsynced>>

\* Faulty variant: the Skipped flag is consulted without Around advice too.
CheckAround_SkipChecked ==
    /\ pc = "checkAround"
    /\ \E seen \in Visible :
          pc' = IF HasAround(seen) THEN "around"
                ELSE IF SkipTarget(ctx)
                     THEN IF SkippedReturningGate(ctx) THEN "afterReturning" ELSE "after"
                     ELSE "target"
    /\ UNCHANGED <<regVars, fn, adapter, target, chain, ctx, result, err, fault,
                   trace, calls, outcome, order>>
    /\ copied' = {}
    /\ UNCHANGED <<lockVars, prior, nested, unsynced>>

\* if chain.HasAround() { ... }
CheckAround ==
    /\ pc = "checkAround"
    /\ \E seen \in Visible :
          pc' = IF HasAround(seen) THEN "around" ELSE "target"
    /\ UNCHANGED <<regVars, fn, adapter, target, chain, ctx, result, err, fault,
                   trace, calls, outcome, order>>
    /\ copied' = {}
    /\ UNCHANGED <<lockVars, prior, nested, unsynced>>

ExecuteAround ==
    /\ pc = "around"
    /\ \E seen \in Visible :
          LET r == ExecutePhase(seen, Around, ctx, order)
          IN /\ ctx' = r.ctx
             /\ order' = r.order
             /\ trace' = Append(trace, Event(Around, ctx, r.ctx, r.ran, r.err))
             /\ IF r.err # Nil
                THEN fault' = AroundFailure(r.err) /\ pc' = PcOnPanic
                ELSE /\ UNCHANGED fault
                     /\ pc' = IF SkipTarget(r.ctx)
                              THEN IF SkippedReturningGate(r.ctx)
                                   THEN "afterReturning" ELSE "after"
                              ELSE "target"
    /\ UNCHANGED <<regVars, fn, adapter, target, chain, result, err, calls, outcome>>
    /\ copied' = {}
    /\ UNCHANGED <<lockVars, prior, nested, unsynced>>

\* Faulty variant: a target that returned an error is invoked a second time.
InvokeTarget_Retry ==
    /\ pc = "target"
    /\ calls' = IF target = "err" THEN calls + 2 ELSE calls + 1
    /\ IF target = "panic"
       THEN /\ fault' = PanicV
            /\ pc' = PcOnPanic
            /\ trace' = Append(trace, Event("Target", ctx, ctx, 0, Nil))
            /\ UNCHANGED <<ctx, result, err>>
       ELSE LET t == TargetFn(adapter, target, ctx)
            IN /\ ctx' = t.ctx
               /\ trace' = Append(trace, Event("Target", ctx, t.ctx, 0, t.err))
               /\ result' = t.result
               /\ err' = t.err
               /\ pc' = IF AfterReturningGate(t.ctx) THEN "afterReturning" ELSE "after"
               /\ UNCHANGED fault
    /\ UNCHANGED <<regVars, fn, adapter, target, chain, outcome, order>>
    /\ copied' = {}
    /\ UNCHANGED <<lockVars, prior, nested, unsynced>>

\* targetFn(ctx)
InvokeTarget ==
    /\ pc = "target"
    /\ calls' = calls + 1
    /\ IF target = "panic"
       THEN /\ fault' = PanicV
            /\ pc' = PcOnPanic
            /\ trace' = Append(trace, Event("Target", ctx, ctx, 0, Nil))
            /\ UNCHANGED <<ctx, result, err>>
       ELSE LET t == TargetFn(adapter, target, ctx)
            IN /\ ctx' = t.ctx
               /\ trace' = Append(trace, Event("Target", ctx, t.ctx, 0, t.err))
               /\ result' = t.result
               /\ err' = t.err
               /\ pc' = IF AfterReturningGate(t.ctx) THEN "afterReturning" ELSE "after"
               /\ UNCHANGED fault
    /\ UNCHANGED <<regVars, fn, adapter, target, chain, outcome, order>>
    /\ copied' = {}
    /\ UNCHANGED <<lockVars, prior, nested, unsynced>>

\* Faulty variant: an error of AfterReturning is raised like one of Before.
ExecuteAfterReturning_Escalating ==
    /\ pc = "afterReturning"
    /\ \E seen \in Visible :
          LET r == ExecutePhase(seen, AfterReturning, ctx, order)
          IN /\ ctx' = r.ctx
             /\ order' = r.order
             /\ trace' = Append(trace, Event(AfterReturning, ctx, r.ctx, r.ran, r.err))
             /\ IF r.err # Nil
                THEN fault' = Errorf("after returning advice failed", r.err) /\ pc' = PcOnPanic
                ELSE pc' = "after" /\ UNCHANGED fault
    /\ UNCHANGED <<regVars, fn, adapter, target, chain, result, err, calls, outcome>>
    /\ copied' = {}
    /\ UNCHANGED <<lockVars, prior, nested, unsynced>>

\* _ = chain.ExecuteAfterReturning(ctx); return ctx
ExecuteAfterReturning ==
    /\ pc = "afterReturning"
    /\ \E seen \in Visible :
          LET r == ExecutePhase(seen, AfterReturning, ctx, order)
          IN /\ ctx' = r.ctx
             /\ order' = r.order
             /\ trace' = Append(trace, Event(AfterReturning, ctx, r.ctx, r.ran, r.err))
    /\ pc' = "after"
    /\ UNCHANGED <<regVars, fn, adapter, target, chain, result, err, fault,
                   calls, outcome>>
    /\ copied' = {}
    /\ UNCHANGED <<lockVars, prior, nested, unsynced>>

\* The deferred recover function with a panic in flight:
\* ctx.PanicValue = r; _ = chain.ExecuteAfterThrowing(ctx); panic(r)
Recover ==
    /\ pc = "recover"
    /\ \E seen \in Visible :
          LET c == Recovered(ctx, fault)
              r == ExecutePhase(seen, AfterThrowing, c, order)
          IN /\ ctx' = r.ctx
             /\ order' = r.order
             /\ trace' = Append(trace, Event(AfterThrowing, c, r.ctx, r.ran, r.err))
    /\ fault' = Repanic(fault)
    /\ pc' = PcAfterRecover
    /\ UNCHANGED <<regVars, fn, adapter, target, chain, result, err, calls, outcome>>
    /\ copied' = {}
    /\ UNCHANGED <<lockVars, prior, nested, unsynced>>

\* The deferred After function: _ = chain.ExecuteAfter(ctx).  With a panic in
\* flight the panic then leaves the engine and the adapter.
ExecuteAfter ==
    /\ pc = "after"
    /\ \E seen \in Visible :
          LET r == ExecutePhase(seen, After, ctx, order)
          IN /\ ctx' = r.ctx
             /\ order' = r.order
             /\ trace' = Append(trace, Event(After, ctx, r.ctx, r.ran, r.err))
    /\ IF fault # Nil
       THEN pc' = "done" /\ outcome' = "panic"
       ELSE pc' = "unbox" /\ UNCHANGED outcome
    /\ UNCHANGED <<regVars, fn, adapter, target, chain, result, err, fault, calls>>
    /\ copied' = {}
    /\ UNCHANGED <<lockVars, prior, nested, unsynced>>

\* The engine returned ctx: the adapter computes what it returns.
Unbox ==
    /\ pc = "unbox"
    /\ pc' = "done"
    /\ IF AssertionFails(adapter, ctx)
       THEN /\ outcome' = "panic"
            /\ fault' = TypeAssertionError
            /\ UNCHANGED <<result, err>>
       ELSE /\ result' = UnboxResult(adapter, ctx, result)
            /\ err' = UnboxError(adapter, ctx, err)
            /\ outcome' = "return"
            /\ UNCHANGED fault
    /\ UNCHANGED <<regVars, fn, adapter, target, chain, ctx, trace, calls, order>>
    /\ copied' = {}
    /\ UNCHANGED <<lockVars, prior, nested, unsynced>>

\* The caller has the outcome; the next call starts from scratch.
Finish ==
    /\ pc = "done"
    /\ pc' = "idle"
    /\ fn' = ""
    /\ adapter' = "Wrap0"
    /\ target' = "ok"
    /\ chain' = 0
    /\ ctx' = NewContext("", <<>>)
    /\ result' = Nil
    /\ err' = Nil
    /\ fault' = Nil
    /\ trace' = <<>>
    /\ calls' = 0
    /\ outcome' = Nil
    /\ prior' = ctx.Metadata
    /\ nested' = 0
    /\ unsynced' = {}
    /\ copied' = {}
    /\ UNCHANGED <<regVars, order>>
    /\ UNCHANGED lockVars

\* ------------------------------------------- Registry under its RWMutex

\* Goroutines calling the registry at the same time.
Threads == 1..MaxThreads

\* The operations that take registry.mu.Lock() and those that take RLock().
WriteOps == {"Register", "RegisterOrGet", "AddAdvice", "Unregister", "Clear"}
ReadOps == {"GetAdviceChain", "IsRegistered", "ListRegistered", "Count", "GetAdviceCount"}
\* The operations with a name parameter.
NamedOps == {"Register", "RegisterOrGet", "AddAdvice", "Unregister",
             "GetAdviceChain", "IsRegistered", "GetAdviceCount"}

\* fmt.Errorf of the registry, and the panic value of RegisterOrGet.
ErrEmptyName == "function name cannot be empty"
ErrAlreadyRegistered(name) == "function '" \o name \o "' is already registered"
ErrNotRegistered(name) == "function '" \o name \o "' is not registered"

\* What a registry call hands back: an error, a chain, a number, a flag, a
\* list of names, or a panic.
NoReturn ==
    [err |-> Nil, chain |-> 0, count |-> 0, exists |-> FALSE, names |-> <<>>,
     panic |-> Nil]

\* A goroutine outside the registry.
IdleThread ==
    [pc |-> "idle", op |-> "Count", name |-> "", found |-> 0, ret |-> NoReturn,
     must |-> FALSE]

\* sync.RWMutex of a new registry: unlocked.
InitLock ==
    /\ mu = [writer |-> 0, readers |-> {}]
    /\ thr = [t \in Threads |-> IdleThread]
    /\ created = [n \in RegistryNames |-> 0]
    /\ succeeded = [n \in RegistryNames |-> 0]
    /\ added = [n \in RegistryNames |-> 0]

\* Faulty variant: Lock does not wait for the writer that holds the mutex.
CanLock_IgnoreWriter(m) == m.readers = {}

\* sync.RWMutex: Lock waits until no writer and no reader holds the mutex.
CanLock(m) == m.writer = 0 /\ m.readers = {}

\* Faulty variant: RLock does not wait for the writer.
CanRLock_Always(m) == TRUE

\* sync.RWMutex: RLock waits only for a writer.
CanRLock(m) == m.writer = 0

\* The goroutine has the mutex and has not yet run the deferred unlock.
InCriticalSection(t) == thr[t].pc \in {"body", "store", "unlock"}

\* A goroutine calls a method of the registry.
CallRegistry(t, op, name) ==
    /\ thr[t].pc = "idle"
    /\ op \notin NamedOps => name = ""
    /\ thr' = [thr EXCEPT ![t] = [IdleThread EXCEPT !.pc = "lock", !.op = op, !.name = name]]
    /\ UNCHANGED <<regVars, invVars, order, mu, created, succeeded, added>>

\* registry.mu.Lock() returns.
Lock(t) ==
    /\ thr[t].pc = "lock"
    /\ thr[t].op \in WriteOps
    /\ CanLock(mu)
    /\ mu' = [mu EXCEPT !.writer = t]
    /\ thr' = [thr EXCEPT ![t].pc = "body"]
    /\ unsynced' = IF t = Invoker THEN {} ELSE unsynced
    /\ UNCHANGED <<regVars, callVars, order, created, succeeded, added>>

\* registry.mu.RLock() returns.
RLock(t) ==
    /\ thr[t].pc = "lock"
    /\ thr[t].op \in ReadOps
    /\ CanRLock(mu)
    /\ mu' = [mu EXCEPT !.readers = @ \cup {t}]
    /\ thr' = [thr EXCEPT ![t].pc = "body"]
    /\ unsynced' = IF t = Invoker THEN {} ELSE unsynced
    /\ UNCHANGED <<regVars, callVars, order, created, succeeded, added>>

\* Faulty variant: Unlock is called before each return statement, not
\* deferred, so a panic passes it by.
Unlock_NotDeferred(t) ==
    /\ thr[t].pc = "unlock"
    /\ thr[t].op \in WriteOps
    /\ mu' = IF thr[t].ret.panic # Nil THEN mu ELSE [mu EXCEPT !.writer = 0]
    /\ thr' = [thr EXCEPT ![t] = IF thr[t].must THEN [@ EXCEPT !.pc = "must"]
                                 ELSE IdleThread]
    /\ UNCHANGED <<regVars, invVars, order, created, succeeded, added>>

\* defer registry.mu.Unlock(): the call returns or, after a panic in the
\* body, the panic goes on to the caller, or to the Must variant that made
\* the call.
Unlock(t) ==
    /\ thr[t].pc = "unlock"
    /\ thr[t].op \in WriteOps
    /\ mu' = [mu EXCEPT !.writer = 0]
    /\ thr' = [thr EXCEPT ![t] = IF thr[t].must THEN [@ EXCEPT !.pc = "must"]
                                 ELSE IdleThread]
    /\ UNCHANGED <<regVars, invVars, order, created, succeeded, added>>

\* defer registry.mu.RUnlock(): the call returns.
RUnlock(t) ==
    /\ thr[t].pc = "unlock"
    /\ thr[t].op \in ReadOps
    /\ mu' = [mu EXCEPT !.readers = @ \ {t}]
    /\ thr' = [thr EXCEPT ![t] = IdleThread]
    /\ UNCHANGED <<regVars, invVars, order, created, succeeded, added>>

\* The goroutine's call returns r once the deferred unlock has run.
Returning(t, r) == [thr EXCEPT ![t].pc = "unlock", ![t].ret = r]

\* Faulty variant: Register does not look the name up.
RegisterLookup_Overwrite(t) ==
    /\ thr[t].pc = "body"
    /\ thr[t].op = "Register"
    /\ thr' = IF thr[t].name = ""
              THEN Returning(t, [NoReturn EXCEPT !.err = ErrEmptyName])
              ELSE [thr EXCEPT ![t].pc = "store"]
    /\ UNCHANGED <<regVars, invVars, order, mu, created, succeeded, added>>

\* Register: the empty name and a name that is a key of the map are errors.
RegisterLookup(t) ==
    /\ thr[t].pc = "body"
    /\ thr[t].op = "Register"
    /\ thr' = IF thr[t].name = ""
              THEN Returning(t, [NoReturn EXCEPT !.err = ErrEmptyName])
              ELSE IF IsRegistered(thr[t].name)
              THEN Returning(t, [NoReturn EXCEPT !.err = ErrAlreadyRegistered(thr[t].name)])
              ELSE [thr EXCEPT ![t].pc = "store"]
    /\ UNCHANGED <<regVars, invVars, order, mu, created, succeeded, added>>

\* Register: registry.entries[name] = NewAdviceChain(); return nil
RegisterStore(t) ==
    /\ thr[t].pc = "store"
    /\ thr[t].op = "Register"
    /\ Len(chains) < MaxChains
    /\ chains' = Append(chains, NewAdviceChain)
    /\ entries' = [entries EXCEPT ![thr[t].name] = Len(chains) + 1]
    /\ created' = [created EXCEPT ![thr[t].name] = @ + 1]
    /\ succeeded' = [succeeded EXCEPT ![thr[t].name] = @ + 1]
    /\ thr' = Returning(t, NoReturn)
    /\ UNCHANGED <<invVars, order, mu, added>>

\* Faulty variant: RegisterOrGet makes a new chain whether or not the name
\* has one.
RegisterOrGetLookup_Fresh(t) ==
    /\ thr[t].pc = "body"
    /\ thr[t].op = "RegisterOrGet"
    /\ thr' = IF thr[t].name = ""
              THEN Returning(t, [NoReturn EXCEPT !.panic = ErrEmptyName])
              ELSE [thr EXCEPT ![t].pc = "store"]
    /\ UNCHANGED <<regVars, invVars, order, mu, created, succeeded, added>>

\* Faulty variant: RegisterOrGet accepts the empty name.
RegisterOrGetLookup_AllowEmpty(t) ==
    /\ thr[t].pc = "body"
    /\ thr[t].op = "RegisterOrGet"
    /\ thr' = IF IsRegistered(thr[t].name)
              THEN Returning(t, [NoReturn EXCEPT !.chain = entries[thr[t].name]])
              ELSE [thr EXCEPT ![t].pc = "store"]
    /\ UNCHANGED <<regVars, invVars, order, mu, created, succeeded, added>>

\* RegisterOrGet: panics on the empty name, returns the chain of a name that
\* is a key of the map.
RegisterOrGetLookup(t) ==
    /\ thr[t].pc = "body"
    /\ thr[t].op = "RegisterOrGet"
    /\ thr' = IF thr[t].name = ""
              THEN Returning(t, [NoReturn EXCEPT !.panic = ErrEmptyName])
              ELSE IF IsRegistered(thr[t].name)
              THEN Returning(t, [NoReturn EXCEPT !.chain = entries[thr[t].name]])
              ELSE [thr EXCEPT ![t].pc = "store"]
    /\ UNCHANGED <<regVars, invVars, order, mu, created, succeeded, added>>

\* RegisterOrGet: chain := NewAdviceChain(); registry.entries[name] = chain;
\* return chain
RegisterOrGetStore(t) ==
    /\ thr[t].pc = "store"
    /\ thr[t].op = "RegisterOrGet"
    /\ Len(chains) < MaxChains
    /\ chains' = Append(chains, NewAdviceChain)
    /\ entries' = [entries EXCEPT ![thr[t].name] = Len(chains) + 1]
    /\ created' = [created EXCEPT ![thr[t].name] = @ + 1]
    /\ thr' = Returning(t, [NoReturn EXCEPT !.chain = Len(chains) + 1])
    /\ UNCHANGED <<invVars, order, mu, succeeded, added>>

\* The advice of the registry tests.
RegistryAdvice ==
    { [Type |-> Before, Priority |-> 100, Handler |-> "ok", Tag |-> 0],
      [Type |-> After, Priority |-> 100, Handler |-> "ok", Tag |-> 0] }

\* Faulty variant: AddAdvice registers a name that is not registered.
AddAdviceLookup_AutoRegister(t) ==
    /\ thr[t].pc = "body"
    /\ thr[t].op = "AddAdvice"
    /\ IF thr[t].name = ""
       THEN /\ thr' = Returning(t, [NoReturn EXCEPT !.err = ErrEmptyName])
            /\ UNCHANGED regVars
       ELSE IF ~IsRegistered(thr[t].name)
       THEN /\ Len(chains) < MaxChains
            /\ chains' = Append(chains, NewAdviceChain)
            /\ entries' = [entries EXCEPT ![thr[t].name] = Len(chains) + 1]
            /\ thr' = [thr EXCEPT ![t].pc = "store", ![t].found = Len(chains) + 1]
       ELSE /\ thr' = [thr EXCEPT ![t].pc = "store", ![t].found = entries[thr[t].name]]
            /\ UNCHANGED regVars
    /\ UNCHANGED <<invVars, order, mu, created, succeeded, added>>

\* AddAdvice: the empty name and a name that is no key of the map are errors.
AddAdviceLookup(t) ==
    /\ thr[t].pc = "body"
    /\ thr[t].op = "AddAdvice"
    /\ IF thr[t].name = ""
       THEN /\ thr' = Returning(t, [NoReturn EXCEPT !.err = ErrEmptyName])
            /\ UNCHANGED regVars
       ELSE IF ~IsRegistered(thr[t].name)
       THEN /\ thr' = Returning(t, [NoReturn EXCEPT !.err = ErrNotRegistered(thr[t].name)])
            /\ UNCHANGED regVars
       ELSE /\ thr' = [thr EXCEPT ![t].pc = "store", ![t].found = entries[thr[t].name]]
            /\ UNCHANGED regVars
    /\ UNCHANGED <<invVars, order, mu, created, succeeded, added>>

\* AddAdvice: chain.Add(advice); return nil
AddAdviceStore(t) ==
    /\ thr[t].pc = "store"
    /\ thr[t].op = "AddAdvice"
    /\ TotalAdvice < MaxAdvice
    /\ \E advice \in RegistryAdvice :
          chains' = [chains EXCEPT ![thr[t].found] = ChainAdd(@, advice)]
    /\ added' = [added EXCEPT ![thr[t].name] = @ + 1]
    /\ unsynced' = IF t # Invoker /\ pc \notin {"idle", "lookup"} /\ chain = thr[t].found
                   THEN unsynced \cup {chains[chain]} ELSE unsynced
    /\ trace' = IF pc \notin {"idle", "lookup"} /\ chain = thr[t].found
                THEN Append(trace, Event(thr[t].op, ctx, ctx, t, Nil)) ELSE trace
    /\ thr' = Returning(t, NoReturn)
    /\ UNCHANGED <<entries, pc, fn, adapter, target, chain, ctx, result, err, fault,
                   calls, outcome, prior, nested, copied, order, mu, created,
                   succeeded>>

\* Faulty variant: Unregister leaves the map as it is.
UnregisterBody_Keep(t) ==
    /\ thr[t].pc = "body"
    /\ thr[t].op = "Unregister"
    /\ thr' = Returning(t, NoReturn)
    /\ UNCHANGED <<regVars, invVars, order, mu, created, succeeded, added>>

\* The history of the invocation in flight notes that the registry lost the
\* entry of the chain the invocation holds.
Dropped(t, names) ==
    IF chain # 0 /\ (\E n \in names : entries[n] = chain)
    THEN Append(trace, Event(thr[t].op, ctx, ctx, t, Nil))
    ELSE trace

\* Unregister: delete(registry.entries, name)
UnregisterBody(t) ==
    /\ thr[t].pc = "body"
    /\ thr[t].op = "Unregister"
    /\ entries' = [entries EXCEPT ![thr[t].name] = 0]
    /\ chains' = Collect(chains, entries', chain)
    /\ created' = [created EXCEPT ![thr[t].name] = 0]
    /\ succeeded' = [succeeded EXCEPT ![thr[t].name] = 0]
    /\ added' = [added EXCEPT ![thr[t].name] = 0]
    /\ thr' = Returning(t, NoReturn)
    /\ trace' = Dropped(t, {thr[t].name})
    /\ UNCHANGED <<pc, fn, adapter, target, chain, ctx, result, err, fault, calls,
                   outcome, prior, nested, unsynced, copied, order, mu>>

\* Clear: registry.entries = make(map[string]*AdviceChain)
ClearBody(t) ==
    /\ thr[t].pc = "body"
    /\ thr[t].op = "Clear"
    /\ entries' = [n \in RegistryNames |-> 0]
    /\ chains' = Collect(chains, entries', chain)
    /\ created' = [n \in RegistryNames |-> 0]
    /\ succeeded' = [n \in RegistryNames |-> 0]
    /\ added' = [n \in RegistryNames |-> 0]
    /\ thr' = Returning(t, NoReturn)
    /\ trace' = Dropped(t, RegistryNames)
    /\ UNCHANGED <<pc, fn, adapter, target, chain, ctx, result, err, fault, calls,
                   outcome, prior, nested, unsynced, copied, order, mu>>

\* The names that are keys of the map.
RegisteredNames == {n \in RegistryNames : entries[n] # 0}

\* Faulty variant: a slice of the right length filled with any keys.
Orderings_Repeating(S) == [1..Cardinality(S) -> S]

\* names = append(names, name) for name := range registry.entries: every key
\* once, in the order the map iteration happens to take.
Orderings(S) == {sq \in [1..Cardinality(S) -> S] : {sq[i] : i \in DOMAIN sq} = S}

\* What each read-locked operation but ListRegistered returns.
ReadResult(op, name) ==
    CASE op = "GetAdviceChain" ->
            IF name = "" THEN [NoReturn EXCEPT !.err = ErrEmptyName]
            ELSE IF ~IsRegistered(name) THEN [NoReturn EXCEPT !.err = ErrNotRegistered(name)]
            ELSE [NoReturn EXCEPT !.chain = entries[name]]
      [] op = "IsRegistered" -> [NoReturn EXCEPT !.exists = IsRegistered(name)]
      [] op = "Count" -> [NoReturn EXCEPT !.count = Cardinality(RegisteredNames)]
      [] op = "GetAdviceCount" ->
            IF ~IsRegistered(name) THEN NoReturn
            ELSE [NoReturn EXCEPT !.count = ChainCount(chains[entries[name]])]

\* GetAdviceChain, IsRegistered, ListRegistered, Count, GetAdviceCount
ReadBody(t) ==
    /\ thr[t].pc = "body"
    /\ thr[t].op \in ReadOps
    /\ IF thr[t].op = "ListRegistered"
       THEN \E sq \in Orderings(RegisteredNames) :
               thr' = Returning(t, [NoReturn EXCEPT !.names = sq])
       ELSE thr' = Returning(t, ReadResult(thr[t].op, thr[t].name))
    /\ UNCHANGED <<regVars, invVars, order, mu, created, succeeded, added>>

Init ==
    /\ entries = [n \in RegistryNames |-> 0]
    /\ chains = <<>>
    /\ pc = "idle"
    /\ fn = ""
    /\ adapter = "Wrap0"
    /\ target = "ok"
    /\ chain = 0
    /\ ctx = NewContext("", <<>>)
    /\ result = Nil
    /\ err = Nil
    /\ fault = Nil
    /\ trace = <<>>
    /\ calls = 0
    /\ outcome = Nil
    /\ prior = NoMetadata
    /\ nested = 0
    /\ unsynced = {}
    /\ copied = {}
    /\ order = <<>>
    /\ InitLock

Next ==
    \/ \E n \in Names : Register(n)
    \/ \E n \in Names, a \in AdviceInputs : AddAdvice(n, a)
    \/ \E n \in Names : Unregister(n)
    \/ Clear
    \/ \E n \in Names, a \in Adapters, t \in {"ok", "err", "panic"} : Call(n, a, t)
    \/ FastPath
    \/ ExecuteBefore
    \/ CheckAround
    \/ ExecuteAround
    \/ InvokeTarget
    \/ ExecuteAfterReturning
    \/ Recover
    \/ ExecuteAfter
    \/ Unbox
    \/ Finish

Spec == Init /\ [][Next]_vars


\* ------------------------------------------- MustRegister, MustAddAdvice

\* The operations that have a Must variant.
MustOps == {"Register", "AddAdvice"}

\* The goroutine calls MustRegister(name) or MustAddAdvice(name, advice),
\* which calls Register or AddAdvice.
MustCall(t, op, name) ==
    /\ thr[t].pc = "idle"
    /\ op \in MustOps
    /\ thr' = [thr EXCEPT ![t] = [IdleThread EXCEPT !.pc = "lock", !.op = op,
                                                     !.name = name, !.must = TRUE]]
    /\ UNCHANGED <<regVars, invVars, order, mu, created, succeeded, added>>

\* Faulty variant: the Must variant drops the error.
MustCheck_Ignore(t) ==
    /\ thr[t].pc = "must"
    /\ thr' = [thr EXCEPT ![t].pc = "mustDone"]
    /\ UNCHANGED <<regVars, invVars, order, mu, created, succeeded, added>>

\* if err := registry.Register(name); err != nil { panic(err) }
MustCheck(t) ==
    /\ thr[t].pc = "must"
    /\ thr' = [thr EXCEPT ![t].pc = "mustDone",
                           ![t].ret.panic = IF thr[t].ret.err # Nil THEN thr[t].ret.err
                                            ELSE Nil]
    /\ UNCHANGED <<regVars, invVars, order, mu, created, succeeded, added>>

\* The Must variant has returned or its panic has left it.
MustReturn(t) ==
    /\ thr[t].pc = "mustDone"
    /\ thr' = [thr EXCEPT ![t] = IdleThread]
    /\ UNCHANGED <<regVars, invVars, order, mu, created, succeeded, added>>

\* Startup configuration by one goroutine, with and without the Must
\* variants.
InitMust == Init

NextMust ==
    \/ \E op \in MustOps, n \in RegistryNames : MustCall(1, op, n)
    \/ \E op \in MustOps \cup {"Unregister"}, n \in RegistryNames : CallRegistry(1, op, n)
    \/ Lock(1)
    \/ RegisterLookup(1)
    \/ RegisterStore(1)
    \/ AddAdviceLookup(1)
    \/ AddAdviceStore(1)
    \/ UnregisterBody(1)
    \/ Unlock(1)
    \/ MustCheck(1)
    \/ MustReturn(1)

SpecMust == InitMust /\ [][NextMust]_vars

\* --------------------------------- the registry called by goroutines

InitRegistry == Init

NextRegistry ==
    \/ \E t \in Threads, op \in WriteOps \cup ReadOps, n \in RegistryNames :
            CallRegistry(t, op, n)
    \/ \E t \in Threads : Lock(t)
    \/ \E t \in Threads : RLock(t)
    \/ \E t \in Threads : RegisterLookup(t)
    \/ \E t \in Threads : RegisterStore(t)
    \/ \E t \in Threads : RegisterOrGetLookup(t)
    \/ \E t \in Threads : RegisterOrGetStore(t)
    \/ \E t \in Threads : AddAdviceLookup(t)
    \/ \E t \in Threads : AddAdviceStore(t)
    \/ \E t \in Threads : UnregisterBody(t)
    \/ \E t \in Threads : ClearBody(t)
    \/ \E t \in Threads : ReadBody(t)
    \/ \E t \in Threads : Unlock(t)
    \/ \E t \in Threads : RUnlock(t)

SpecRegistry == InitRegistry /\ [][NextRegistry]_vars

\* ----------------------------------- a chain with advice in every phase

\* The advice of the workflow tests: that of AdviceInputs, handlers of the
\* three closing phases that return an error, and an Around handler that
\* skips the target with a value of the wrong type.
WorkflowInputs ==
    AdviceInputs \cup
    { [Type |-> AfterReturning, Priority |-> 100, Handler |-> "fail", Tag |-> 0],
      [Type |-> AfterThrowing, Priority |-> 100, Handler |-> "fail", Tag |-> 0],
      [Type |-> After, Priority |-> 100, Handler |-> "fail", Tag |-> 0],
      [Type |-> Around, Priority |-> 100, Handler |-> "skipBad", Tag |-> 0],
      [Type |-> Before, Priority |-> 100, Handler |-> "setMeta", Tag |-> 0],
      [Type |-> Before, Priority |-> 100, Handler |-> "setSkipped", Tag |-> 0],
      [Type |-> Around, Priority |-> 100, Handler |-> "setResult", Tag |-> 0],
      [Type |-> Around, Priority |-> 100, Handler |-> "skipFault", Tag |-> 0] }

\* The chains with one advice in each of the five phases, and those with
\* one in each phase but Around.
WorkflowChains ==
    { [before |-> <<b>>, after |-> <<a>>, around |-> r,
       afterReturning |-> <<ar>>, afterThrowing |-> <<at>>] :
        b \in {x \in WorkflowInputs : x.Type = Before},
        a \in {x \in WorkflowInputs : x.Type = After},
        r \in {<<>>} \cup {<<x>> : x \in {y \in WorkflowInputs : y.Type = Around}},
        ar \in {x \in WorkflowInputs : x.Type = AfterReturning},
        at \in {x \in WorkflowInputs : x.Type = AfterThrowing} }

\* "f" is registered with one of these chains.
InitWorkflow ==
    /\ entries = [n \in RegistryNames |-> IF n = "f" THEN 1 ELSE 0]
    /\ \E ac \in WorkflowChains : chains = <<ac>>
    /\ pc = "idle"
    /\ fn = ""
    /\ adapter = "Wrap0"
    /\ target = "ok"
    /\ chain = 0
    /\ ctx = NewContext("", <<>>)
    /\ result = Nil
    /\ err = Nil
    /\ fault = Nil
    /\ trace = <<>>
    /\ calls = 0
    /\ outcome = Nil
    /\ prior = NoMetadata
    /\ nested = 0
    /\ unsynced = {}
    /\ copied = {}
    /\ order = <<>>
    /\ InitLock

NextWorkflow ==
    \/ \E n \in Names, a \in Adapters, t \in {"ok", "err", "panic"} : Call(n, a, t)
    \/ FastPath
    \/ ExecuteBefore
    \/ CheckAround
    \/ ExecuteAround
    \/ InvokeTarget
    \/ ExecuteAfterReturning
    \/ Recover
    \/ ExecuteAfter
    \/ Unbox
    \/ Finish

SpecWorkflow == InitWorkflow /\ [][NextWorkflow]_vars

\* --------------------------------------------- the results of a Context

\* The indexes and values the results are exercised with; Nil is Go's nil.
Indexes == {-1, 0, 1, 2}
ResultValues == {Nil, TargetValue, AdviceValue}

\* One call on the context under test: the context before and after, the
\* index (ran) and the value passed or returned (ret).
ContextCall(op, cin, cout, index, value) == Event(op, cin, cout, index, value)

\* ctx.SetResult(index, value)
SetResultCall(index, value) ==
    /\ Len(trace) < MaxLen
    /\ ctx' = SetResult(ctx, index, value)
    /\ trace' = Append(trace, ContextCall("SetResult", ctx, ctx', index, value))
    /\ UNCHANGED <<regVars, pc, fn, adapter, target, chain, result, err, fault,
                   calls, outcome, prior, nested, unsynced, copied, order,
                   lockVars>>

\* ctx.GetResult(index)
GetResultCall(index) ==
    /\ Len(trace) < MaxLen
    /\ trace' = Append(trace, ContextCall("GetResult", ctx, ctx, index, GetResult(ctx, index)))
    /\ UNCHANGED <<regVars, pc, fn, adapter, target, chain, ctx, result, err, fault,
                   calls, outcome, prior, nested, unsynced, copied, order,
                   lockVars>>

\* ctx := NewContext("", <<>>)
InitContext == Init

NextContext ==
    \/ \E i \in Indexes, v \in ResultValues : SetResultCall(i, v)
    \/ \E i \in Indexes : GetResultCall(i)

SpecContext == InitContext /\ [][NextContext]_vars

\* ------------------------------------ invocations and registry together

\* The invoking goroutine runs adapter calls of "f"; its handlers and
\* targets call the registry, and another goroutine calls the registry at
\* the same time.  The lookup of executeWithAdvice goes through the mutex.

\* The chains "f" starts with.
InFlightChains ==
    { [NewAdviceChain EXCEPT
          !.afterThrowing = <<[Type |-> AfterThrowing, Priority |-> 100,
                               Handler |-> "ok", Tag |-> 0]>>,
          !.after = <<[Type |-> After, Priority |-> 100, Handler |-> "ok", Tag |-> 0]>>],
      [NewAdviceChain EXCEPT
          !.before = <<[Type |-> Before, Priority |-> 100, Handler |-> "ok", Tag |-> 0]>>,
          !.afterReturning = <<[Type |-> AfterReturning, Priority |-> 100,
                                Handler |-> "ok", Tag |-> 0]>>],
      [NewAdviceChain EXCEPT
          !.around = <<[Type |-> Around, Priority |-> 100, Handler |-> "ok", Tag |-> 0]>>] }

\* The adapters called, and the registry operations the handlers, the
\* targets and the other goroutine call.
InFlightAdapters == {"Wrap0"}
InFlightTargets == {"ok", "panic"}
NestedOps == {"AddAdvice"}
OtherOps == {"AddAdvice", "Unregister", "Clear"}

\* The adapter is called: chain, err := GetAdviceChain(functionName) begins.
Invoke(name, a, tgt) ==
    /\ pc = "idle"
    /\ thr[Invoker].pc = "idle"
    /\ tgt \in TargetBehaviours(a)
    /\ pc' = "lookup"
    /\ fn' = name
    /\ adapter' = a
    /\ target' = tgt
    /\ result' = IF ReturnsValue(a) THEN ZeroValue ELSE Nil
    /\ err' = Nil
    /\ thr' = [thr EXCEPT ![Invoker] =
                  [IdleThread EXCEPT !.pc = "lock", !.op = "GetAdviceChain", !.name = name]]
    /\ UNCHANGED <<regVars, chain, ctx, fault, trace, calls, outcome, prior, nested,
                   unsynced, copied, order, mu, created, succeeded, added>>

\* Faulty variant: the engine keeps the read lock of its lookup.
LookupReturn_KeepsRLock ==
    /\ pc = "lookup"
    /\ thr[Invoker].pc = "unlock"
    /\ thr' = [thr EXCEPT ![Invoker] = IdleThread]
    /\ chain' = thr[Invoker].ret.chain
    /\ pc' = IF thr[Invoker].ret.err # Nil THEN "fast" ELSE "before"
    /\ ctx' = NewContext(fn, CallArgs(adapter))
    /\ UNCHANGED <<regVars, fn, adapter, target, result, err, fault, trace, calls,
                   outcome, prior, nested, unsynced, copied, order, mu, created, succeeded,
                   added>>

\* GetAdviceChain returns (its deferred RUnlock has run): with an error the
\* engine takes the fast path, with a chain it creates the context.
LookupReturn ==
    /\ pc = "lookup"
    /\ thr[Invoker].pc = "unlock"
    /\ mu' = [mu EXCEPT !.readers = @ \ {Invoker}]
    /\ thr' = [thr EXCEPT ![Invoker] = IdleThread]
    /\ chain' = thr[Invoker].ret.chain
    /\ pc' = IF thr[Invoker].ret.err # Nil THEN "fast" ELSE "before"
    /\ ctx' = NewContext(fn, CallArgs(adapter))
    /\ UNCHANGED <<regVars, fn, adapter, target, result, err, fault, trace, calls,
                   outcome, prior, nested, unsynced, copied, order, created, succeeded,
                   added>>

\* The steps of executeWithAdvice in which handlers or the target run, and
\* the phase whose handlers run (none: the target).
RunningSteps == {"fast", "before", "around", "target", "afterReturning", "recover", "after"}
PhaseOfStep(step) ==
    CASE step = "before" -> Before
      [] step = "around" -> Around
      [] step = "afterReturning" -> AfterReturning
      [] step = "recover" -> AfterThrowing
      [] step = "after" -> After
      [] OTHER -> "Target"

\* A handler of the phase about to run, or the target, calls a method of the
\* registry; a call of another adapter is its GetAdviceChain.  The engine
\* does nothing with the mutex between its lookup and its return, so the
\* call is placed where the step begins; the phase has by then made its copy
\* of the list (copied' = slice of the chain as the phase found it).
HandlerCallsRegistry(op, name) ==
    /\ pc \in RunningSteps
    /\ PhaseOfStep(pc) \in AdviceTypes => Len(PhaseList(chains[chain], PhaseOfStep(pc))) > 0
    /\ thr[Invoker].pc = "idle"
    /\ nested < MaxNested
    /\ nested' = nested + 1
    /\ IF PhaseOfStep(pc) \in AdviceTypes /\ copied = {}
       THEN \E seen \in Visible : copied' = {seen}
       ELSE UNCHANGED copied
    /\ op \notin NamedOps => name = ""
    /\ thr' = [thr EXCEPT ![Invoker] =
                  [IdleThread EXCEPT !.pc = "lock", !.op = op, !.name = name]]
    /\ UNCHANGED <<regVars, pc, fn, adapter, target, chain, ctx, result, err, fault,
                   trace, calls, outcome, prior, unsynced, order, mu, created,
                   succeeded, added>>

\* The invoking goroutine is in no registry call of a handler or target.
EngineRuns == thr[Invoker].pc = "idle"

\* The deferred RUnlock of a registry call made by a handler or target, or
\* by another goroutine.
NestedReturns(t) == (t # Invoker \/ pc # "lookup") /\ RUnlock(t)

InitInFlight ==
    /\ entries = [n \in RegistryNames |-> IF n = "f" THEN 1 ELSE 0]
    /\ \E ac \in InFlightChains : chains = <<ac>>
    /\ pc = "idle"
    /\ fn = ""
    /\ adapter = "Wrap0"
    /\ target = "ok"
    /\ chain = 0
    /\ ctx = NewContext("", <<>>)
    /\ result = Nil
    /\ err = Nil
    /\ fault = Nil
    /\ trace = <<>>
    /\ calls = 0
    /\ outcome = Nil
    /\ prior = NoMetadata
    /\ nested = 0
    /\ unsynced = {}
    /\ copied = {}
    /\ order = <<>>
    /\ InitLock

NextInFlight ==
    \/ \E a \in InFlightAdapters, t \in InFlightTargets : Invoke("f", a, t)
    \/ LookupReturn
    \/ \E op \in NestedOps : HandlerCallsRegistry(op, IF op \in NamedOps THEN "f" ELSE "")
    \/ \E t \in Threads \ {Invoker}, op \in OtherOps :
            CallRegistry(t, op, IF op \in NamedOps THEN "f" ELSE "")
    \/ \E t \in Threads : Lock(t)
    \/ \E t \in Threads : RLock(t)
    \/ \E t \in Threads : AddAdviceLookup(t)
    \/ \E t \in Threads : AddAdviceStore(t)
    \/ \E t \in Threads : UnregisterBody(t)
    \/ \E t \in Threads : ClearBody(t)
    \/ \E t \in Threads : ReadBody(t)
    \/ \E t \in Threads : Unlock(t)
    \/ EngineRuns /\ FastPath
    \/ EngineRuns /\ ExecuteBefore
    \/ EngineRuns /\ CheckAround
    \/ EngineRuns /\ ExecuteAround
    \/ EngineRuns /\ InvokeTarget
    \/ EngineRuns /\ ExecuteAfterReturning
    \/ EngineRuns /\ Recover
    \/ EngineRuns /\ ExecuteAfter
    \/ EngineRuns /\ Unbox
    \/ EngineRuns /\ Finish

SpecInFlight == InitInFlight /\ [][NextInFlight]_vars

\* ------------------------------- registry calls made inside an invocation

\* The handlers and the target of an invocation of "f" call every kind of
\* registry method for the same name, or call an adapter of "f" again (its
\* first step, GetAdviceChain, is the one that takes the mutex), while
\* other goroutines use the registry.  The scheduler and sync.RWMutex are
\* fair: a goroutine that can run does, a writer that finds the mutex free
\* again and again gets it, and readers and writers take turns.
HandlerOps == {"Register", "AddAdvice", "Unregister", "Clear", "GetAdviceChain", "Count"}
ContendingOps == {"Unregister", "Count"}

\* A goroutine is blocked in registry.mu.Lock().
WriterWaiting == \E u \in Threads : thr[u].pc = "lock" /\ thr[u].op \in WriteOps

\* The goroutines blocked in registry.mu.RLock().
ReadersWaiting == {u \in Threads : thr[u].pc = "lock" /\ thr[u].op \in ReadOps}

\* registry.mu.RLock() returns.  sync.RWMutex: a blocked Lock call excludes
\* new readers from acquiring the lock.
RLockBehindWriter(t) == ~WriterWaiting /\ RLock(t)

\* defer registry.mu.Unlock().  sync.RWMutex: the readers blocked behind the
\* writer are woken with the read lock before another writer can have it.
UnlockWakesReaders(t) ==
    /\ thr[t].pc = "unlock"
    /\ thr[t].op \in WriteOps
    /\ mu' = [writer |-> 0, readers |-> ReadersWaiting]
    /\ thr' = [u \in Threads |->
                  IF u = t THEN (IF thr[t].must THEN [thr[t] EXCEPT !.pc = "must"]
                                 ELSE IdleThread)
                  ELSE IF u \in ReadersWaiting THEN [thr[u] EXCEPT !.pc = "body"]
                  ELSE thr[u]]
    /\ unsynced' = IF Invoker \in ReadersWaiting THEN {} ELSE unsynced
    /\ UNCHANGED <<regVars, callVars, order, created, succeeded, added>>

\* The model has room for what the call will store.
HasRoom(op) ==
    /\ op = "AddAdvice" => TotalAdvice < MaxAdvice
    /\ op = "Register" => Len(chains) < MaxChains

\* A step of executeWithAdvice between the lookup and the return.
EngineStep ==
    /\ EngineRuns
    /\ \/ FastPath
       \/ ExecuteBefore
       \/ CheckAround
       \/ ExecuteAround
       \/ InvokeTarget
       \/ ExecuteAfterReturning
       \/ Recover
       \/ ExecuteAfter
       \/ Unbox

\* The body of the registry method goroutine t is in.
MethodBody(t) ==
    \/ RegisterLookup(t)
    \/ RegisterStore(t)
    \/ AddAdviceLookup(t)
    \/ AddAdviceStore(t)
    \/ UnregisterBody(t)
    \/ ClearBody(t)
    \/ ReadBody(t)

NextNested ==
    \/ \E t \in InFlightTargets : Invoke("f", "Wrap0", t)
    \/ LookupReturn
    \/ \E op \in HandlerOps :
            HasRoom(op) /\ HandlerCallsRegistry(op, IF op \in NamedOps THEN "f" ELSE "")
    \/ \E t \in Threads \ {Invoker}, op \in ContendingOps :
            CallRegistry(t, op, IF op \in NamedOps THEN "f" ELSE "")
    \/ \E t \in Threads : Lock(t)
    \/ \E t \in Threads : RLockBehindWriter(t)
    \/ \E t \in Threads : MethodBody(t)
    \/ \E t \in Threads : UnlockWakesReaders(t)
    \/ \E t \in Threads : NestedReturns(t)
    \/ EngineStep
    \/ EngineRuns /\ Finish

FairNested ==
    /\ WF_vars(EngineStep)
    /\ WF_vars(LookupReturn)
    /\ \A t \in Threads : WF_vars(MethodBody(t))
    /\ \A t \in Threads : WF_vars(UnlockWakesReaders(t))
    /\ \A t \in Threads : WF_vars(NestedReturns(t))
    /\ \A t \in Threads : WF_vars(Lock(t))
    /\ SF_vars(Lock(Invoker))
    /\ SF_vars(RLockBehindWriter(Invoker))

SpecNested == InitInFlight /\ [][NextNested]_vars /\ FairNested

\* ------------------------------------------------- ordering of a phase

\* The advice of the ordering tests: its handler appends itself to the log.
\* Tag is the number of the advice in insertion order.
LoggedAdvice(phase, p, tag) ==
    [Type |-> phase, Priority |-> p, Handler |-> "log", Tag |-> tag]

InitOrder ==
    /\ entries = [n \in RegistryNames |-> IF n = "f" THEN 1 ELSE 0]
    /\ chains = <<NewAdviceChain>>
    /\ pc = "idle"
    /\ fn = ""
    /\ adapter = "Wrap0"
    /\ target = "ok"
    /\ chain = 0
    /\ ctx = NewContext("", <<>>)
    /\ result = Nil
    /\ err = Nil
    /\ fault = Nil
    /\ trace = <<>>
    /\ calls = 0
    /\ outcome = Nil
    /\ prior = NoMetadata
    /\ nested = 0
    /\ unsynced = {}
    /\ copied = {}
    /\ order = <<>>
    /\ InitLock

\* chain.Add(Advice{Type: phase, Priority: p, Handler: log}), all advice
\* going to one phase of the chain.
AddLogged(phase, p) ==
    /\ ChainCount(chains[1]) = Len(PhaseList(chains[1], phase))
    /\ Len(PhaseList(chains[1], phase)) < MaxLen
    /\ chains' = [chains EXCEPT ![1] =
                    ChainAdd(@, LoggedAdvice(phase, p, Len(PhaseList(@, phase)) + 1))]
    /\ UNCHANGED <<entries, invVars, order>>
    /\ UNCHANGED lockVars

\* order = nil; chain.Execute<Phase>(ctx)
ExecuteLogged(phase) ==
    /\ Len(PhaseList(chains[1], phase)) > 0
    /\ order' = ExecutePhase(chains[1], phase, NewContext("f", <<>>), <<>>).order
    /\ chains' = [chains EXCEPT ![1] =
                    WithPhaseList(@, phase, StoredAfter(PhaseList(@, phase)))]
    /\ UNCHANGED <<entries, invVars>>
    /\ UNCHANGED lockVars

NextOrder ==
    \/ \E ph \in AdviceTypes, p \in 1..MaxPrio : AddLogged(ph, p)
    \/ \E ph \in AdviceTypes : ExecuteLogged(ph)

SpecOrder == InitOrder /\ [][NextOrder]_vars

\* ---------------------------------------------------------------- claims

\* C1: executing a phase invokes its handlers in descending priority order:
\* a handler of higher priority runs before every handler of lower priority
\* of the same phase, whatever the insertion order.
C1_DescendingPriority ==
    \A i, j \in DOMAIN order : i < j => order[i][1] >= order[j][1]

\* C2: within one phase, two advice of equal priority run in the order they
\* were added.
C2_TiesInInsertionOrder ==
    \A i, j \in DOMAIN order :
        (i < j /\ order[i][1] = order[j][1]) => order[i][2] < order[j][2]


\* Number of executions of a phase (or of the target) in the invocation.
Count(phase) == Cardinality({i \in DOMAIN trace : trace[i].phase = phase})

\* The invocation found a chain for its name (it is not on the fast path).
Guarded == chain # 0

\* Control has left executeWithAdvice.
EngineLeft == pc \in {"unbox", "done"}

\* C3: in an invocation of a registered name the After phase runs exactly
\* once and is the last phase executed before control leaves the engine,
\* on every path (return, target error, skip, target panic, handler error).
C3_AfterOnceAndLast ==
    Guarded =>
        /\ Count(After) <= 1
        /\ \A i \in DOMAIN trace : trace[i].phase = After => i = Len(trace)
        /\ EngineLeft => Count(After) = 1

C3_Witness ==
    /\ pc = "done" /\ Guarded /\ outcome = "panic"
    /\ target = "panic" /\ calls = 1
    /\ Count(After) = 1 /\ trace[Len(trace)].ran = 1

\* C4: when the target of a registered name panics with V, AfterThrowing
\* runs exactly once with ctx.PanicValue = V, right after the target, then
\* After runs, then the call panics again with V; the call never returns
\* normally and AfterReturning does not run.
C4_TargetPanicPropagates ==
    (Guarded /\ target = "panic" /\ calls = 1) =>
        LET n == Len(trace)
        IN /\ fault = PanicV
           /\ pc \in {"recover", "after", "done"}
           /\ Count(AfterReturning) = 0
           /\ pc \in {"after", "done"} =>
                /\ Count(AfterThrowing) = 1
                /\ \E i \in DOMAIN trace :
                      /\ i > 1
                      /\ trace[i - 1].phase = "Target"
                      /\ trace[i].phase = AfterThrowing
                      /\ trace[i].in.PanicValue = PanicV
           /\ pc = "done" =>
                /\ outcome = "panic"
                /\ trace[n].phase = After
                /\ trace[n - 1].phase = AfterThrowing

C4_Witness ==
    /\ pc = "done" /\ Guarded /\ target = "panic" /\ calls = 1
    /\ outcome = "panic" /\ fault = PanicV
    /\ \E i \in DOMAIN trace :
          /\ trace[i].phase = AfterThrowing
          /\ trace[i].ran = 1
          /\ trace[i].in.PanicValue = PanicV

\* C5: when a Before handler, or an Around handler, returns an error, the
\* call becomes a fault: the target is never invoked, no later pre-target
\* phase and no AfterReturning runs, AfterThrowing runs next with
\* ctx.PanicValue the handler's error wrapped with the name of the failing
\* phase, then After runs, and the caller gets a panic with that value.
C5_HandlerErrorIsFault ==
    \A i \in DOMAIN trace :
        (Guarded /\ trace[i].phase \in {Before, Around} /\ trace[i].ret # Nil) =>
            LET wrapped == Errorf(IF trace[i].phase = Before
                                  THEN "before advice failed"
                                  ELSE "around advice failed", trace[i].ret)
            IN /\ calls = 0
               /\ fault = wrapped
               /\ wrapped # trace[i].ret
               /\ pc \in {"recover", "after", "done"}
               /\ \A j \in DOMAIN trace :
                     j > i => trace[j].phase \in {AfterThrowing, After}
               /\ pc \in {"after", "done"} =>
                     /\ Len(trace) > i
                     /\ trace[i + 1].phase = AfterThrowing
                     /\ trace[i + 1].in.PanicValue = wrapped
               /\ pc = "done" =>
                     /\ Len(trace) = i + 2
                     /\ trace[i + 2].phase = After
                     /\ outcome = "panic"

C5_Witness ==
    /\ pc = "done" /\ Guarded /\ outcome = "panic"
    /\ fault = "before advice failed: errHandler"
    /\ Len(trace) = 3
    /\ trace[1].phase = Before /\ trace[1].ret = HandlerError
    /\ trace[2].phase = AfterThrowing /\ trace[2].ran = 1

\* C6: when the Around phase has run (no handler error) and left
\* ctx.Skipped true, the target is not invoked in that invocation and the
\* call ends as a normal return.
C6_SkipBypassesTarget ==
    \A i \in DOMAIN trace :
        (Guarded /\ trace[i].phase = Around /\ trace[i].ret = Nil
                 /\ trace[i].out.Skipped) =>
            /\ calls = 0
            /\ Count("Target") = 0
            /\ fault = Nil
            /\ pc \in {"afterReturning", "after", "unbox", "done"}
            /\ pc = "done" => outcome = "return"

C6_Witness ==
    /\ pc = "done" /\ Guarded /\ outcome = "return" /\ calls = 0
    /\ \E i \in DOMAIN trace :
          trace[i].phase = Around /\ trace[i].ret = Nil /\ trace[i].out.Skipped

\* The Around phase of the invocation skipped the target and left v in
\* result slot 0 / e in ctx.Error, and the context still holds it.
SkippedWithResult(v) ==
    /\ GetResult(ctx, 0) = v
    /\ \E i \in DOMAIN trace :
          /\ trace[i].phase = Around /\ trace[i].ret = Nil
          /\ trace[i].out.Skipped /\ GetResult(trace[i].out, 0) = v

SkippedWithError(e) ==
    /\ ctx.Error = e
    /\ \E i \in DOMAIN trace :
          /\ trace[i].phase = Around /\ trace[i].ret = Nil
          /\ trace[i].out.Skipped /\ trace[i].out.Error = e

\* C7: for every value-returning adapter, when Around advice sets
\* Skipped and SetResult(0, v), the adapter returns v to its caller.
C7_SkipResultReturned ==
    (pc = "done" /\ outcome = "return" /\ Guarded /\ ReturnsValue(adapter)
        /\ SkippedWithResult(AdviceValue)) => result = AdviceValue

\* C8: for every error-returning adapter, when Around advice sets Skipped
\* and ctx.Error = e, the adapter returns e to its caller.
C8_SkipErrorReturned ==
    (pc = "done" /\ outcome = "return" /\ Guarded /\ ReturnsError(adapter)
        /\ SkippedWithError(AdviceError)) => err = AdviceError

\* The phases after a target call at trace position i that returned:
\* AfterReturning exactly once, next, and then After; or After alone.
ThenAfterReturning(i) ==
    /\ pc \in {"after", "unbox", "done"} =>
          /\ Len(trace) > i
          /\ trace[i + 1].phase = AfterReturning
          /\ Count(AfterReturning) = 1
    /\ EngineLeft => Len(trace) = i + 2 /\ trace[i + 2].phase = After

ThenAfterOnly(i) ==
    /\ Count(AfterReturning) = 0
    /\ pc # "afterReturning"
    /\ EngineLeft => Len(trace) = i + 1 /\ trace[i + 1].phase = After

C10_TargetErrorReturned ==
    (target = "err" /\ calls = 1) =>
        /\ fault = Nil
        /\ pc # "recover"
        /\ Count(AfterThrowing) = 0
        /\ pc = "done" =>
              /\ outcome = "return"
              /\ err = TargetError
              /\ Guarded =>
                    /\ trace[Len(trace)].phase = After
                    /\ trace[Len(trace)].in.Error = TargetError

\* C11: a call under a name the registry does not hold runs the target
\* exactly once and no advice of any phase, and contains no fault: a panic
\* of the target leaves the call with its original value, unrecorded, and
\* any other target makes the call return.
C11_UnregisteredFastPath ==
    (pc # "idle" /\ (fn = "" \/ ~IsRegistered(fn))) =>
        /\ \A i \in DOMAIN trace : trace[i].phase = "Target"
        /\ pc \in {"unbox", "done"} => (calls = 1 /\ Len(trace) = 1)
        /\ ctx.PanicValue = Nil
        /\ pc = "done" =>
              IF target = "panic"
              THEN outcome = "panic" /\ fault = PanicV
              ELSE outcome = "return" /\ fault = Nil

\* An unregistered name was called with a panicking target while the
\* registry held advice, and the panic left the call.
C11_Witness ==
    /\ pc = "done"
    /\ fn = ""
    /\ TotalAdvice > 0
    /\ target = "panic"
    /\ outcome = "panic"

\* The phases of the invocation in flight, in the order they ran.
Phases == [i \in DOMAIN trace |-> trace[i].phase]

\* The chain of the invocation has advice of every type.
AdviceInEveryPhase ==
    /\ Guarded
    /\ \A ph \in AdviceTypes : Len(PhaseList(chains[chain], ph)) > 0

\* No handler returned an error, Around did not skip the target, and the
\* target returned without error.
NormalPath ==
    /\ target = "ok"
    /\ \A i \in DOMAIN trace : trace[i].ret = Nil
    /\ \A i \in DOMAIN trace : trace[i].phase = Around => ~trace[i].out.Skipped

ClosingPhases == {AfterReturning, AfterThrowing, After}

\* The fault that Before, Around or the target raised in this invocation.
Raised ==
    IF \E i \in DOMAIN trace : trace[i].phase = Before /\ trace[i].ret # Nil
    THEN BeforeFailure(HandlerError)
    ELSE IF \E i \in DOMAIN trace : trace[i].phase = Around /\ trace[i].ret # Nil
    THEN AroundFailure(HandlerError)
    ELSE IF calls = 1 /\ target = "panic" THEN PanicV
    ELSE Nil

\* What the target left in the adapter's local variables.
TargetResult ==
    IF calls = 1 /\ target # "panic"
    THEN TargetFn(adapter, target, ctx).result
    ELSE IF ReturnsValue(adapter) THEN ZeroValue ELSE Nil
TargetErr == IF calls = 1 /\ target = "err" THEN TargetError ELSE Nil

\* C13: an error returned by a handler of AfterReturning, AfterThrowing or
\* After is not escalated: the fault in flight stays the one that Before,
\* Around or the target raised (none, if none did), the call ends as that
\* decides, and a returning call delivers what the adapter reads from its
\* locals and the context, the handler's error appearing nowhere.
C13_ClosingErrorsDiscarded ==
    (\E i \in DOMAIN trace : trace[i].phase \in ClosingPhases /\ trace[i].ret # Nil) =>
        /\ pc \in {"after", "unbox"} => fault = Raised
        /\ pc = "done" =>
              /\ outcome = IF Raised # Nil \/ AssertionFails(adapter, ctx)
                            THEN "panic" ELSE "return"
              /\ fault = IF Raised # Nil THEN Raised
                          ELSE IF AssertionFails(adapter, ctx) THEN TypeAssertionError
                          ELSE Nil
              /\ outcome = "return" =>
                    /\ result = UnboxResult(adapter, ctx, TargetResult)
                    /\ err = UnboxError(adapter, ctx, TargetErr)
                    /\ err # HandlerError

\* AfterReturning and After both returned an error and the call returned
\* the target's value.
C13_Witness ==
    /\ pc = "done" /\ outcome = "return"
    /\ \E i \in DOMAIN trace : trace[i].phase = AfterReturning /\ trace[i].ret = HandlerError
    /\ \E i \in DOMAIN trace : trace[i].phase = After /\ trace[i].ret = HandlerError
    /\ result = TargetValue

\* C14: After advice can only observe: whatever an After handler writes
\* into the context, the call ends the same way and delivers the values it
\* would deliver from the context as the After phase received it.
C14_AfterOnlyObserves ==
    \A i \in DOMAIN trace :
        (Guarded /\ trace[i].phase = After /\ pc = "done") =>
            /\ outcome = IF Raised # Nil \/ AssertionFails(adapter, trace[i].in)
                          THEN "panic" ELSE "return"
            /\ outcome = "return" =>
                  /\ result = UnboxResult(adapter, trace[i].in, TargetResult)
                  /\ err = UnboxError(adapter, trace[i].in, TargetErr)

\* C15: every value-returning adapter fails fast with a type-mismatch fault
\* when the engine returns normally and the value boxed in result slot 0
\* does not have the declared result type.
C15_TypeMismatchFailsFast ==
    (/\ Guarded /\ pc = "done" /\ ReturnsValue(adapter) /\ Raised = Nil
     /\ Len(ctx.Results) > 0 /\ ctx.Results[1] # Nil /\ ~HasTypeR(ctx.Results[1])) =>
        outcome = "panic" /\ fault = TypeAssertionError

\* Goroutine t is inside a call of op with a non-empty name, holding the lock.
Inside(t, op) == thr[t].op = op /\ InCriticalSection(t) /\ thr[t].name # ""

\* C16: Register of a name that is registered fails with an error and leaves
\* the registry as it was (same chain, same advice); no step replaces the
\* chain of a name by another chain while the name stays registered.
C16_RegisterTwiceFails ==
    [][/\ \A t \in Threads :
             (Inside(t, "Register") /\ IsRegistered(thr[t].name)
              /\ (thr[t].pc = "unlock" => thr[t].ret.err # Nil)) =>
                /\ entries' = entries /\ chains' = chains
                /\ (thr[t].pc # "unlock" /\ thr'[t] # thr[t]) =>
                      /\ thr'[t].pc = "unlock"
                      /\ thr'[t].ret = [NoReturn EXCEPT
                                           !.err = ErrAlreadyRegistered(thr[t].name)]
       /\ \A n \in RegistryNames :
             (entries[n] # 0 /\ entries'[n] # 0) => entries'[n] = entries[n]]_vars

\* Register of a registered name, whose chain holds advice, returned the error.
C16_Witness ==
    \E t \in Threads :
        /\ thr[t].op = "Register" /\ thr[t].pc = "unlock"
        /\ thr[t].ret.err = ErrAlreadyRegistered("f")
        /\ IsRegistered("f") /\ ChainCount(chains[entries["f"]]) > 0

\* C17: RegisterOrGet of a non-empty name never fails; on a name without a
\* chain it stores a new empty chain and returns it; on a name with a chain
\* it returns that chain and changes nothing, and GetAdviceChain returns the
\* same chain; the chain of a name changes only when the name is
\* unregistered or the registry cleared.
C17_RegisterOrGetIdempotent ==
    [][/\ \A t \in Threads :
             (Inside(t, "RegisterOrGet") /\ thr[t].pc = "body" /\ thr'[t] # thr[t]) =>
                IF IsRegistered(thr[t].name)
                THEN /\ thr'[t].pc = "unlock"
                     /\ thr'[t].ret = [NoReturn EXCEPT !.chain = entries[thr[t].name]]
                     /\ entries' = entries /\ chains' = chains
                ELSE thr'[t].pc = "store" /\ entries' = entries /\ chains' = chains
       /\ \A t \in Threads :
             (Inside(t, "RegisterOrGet") /\ thr[t].pc = "store" /\ thr'[t] # thr[t]) =>
                /\ thr'[t].pc = "unlock"
                /\ thr'[t].ret = [NoReturn EXCEPT !.chain = entries'[thr[t].name]]
                /\ entries'[thr[t].name] \notin {entries[n] : n \in RegistryNames}
                /\ chains'[entries'[thr[t].name]] = NewAdviceChain
       /\ \A t \in Threads :
             (Inside(t, "GetAdviceChain") /\ IsRegistered(thr[t].name)
              /\ thr[t].pc = "body" /\ thr'[t] # thr[t]) =>
                thr'[t].ret = [NoReturn EXCEPT !.chain = entries[thr[t].name]]
       /\ \A n \in RegistryNames :
             (entries[n] # 0 /\ entries'[n] # entries[n]) =>
                /\ entries'[n] = 0
                /\ \E t \in Threads : thr[t].op \in {"Unregister", "Clear"}
                                       /\ thr[t].pc = "body" /\ thr'[t].pc = "unlock"]_vars

\* RegisterOrGet returned the chain of a name that had advice.
C17_Witness ==
    \E t \in Threads :
        /\ thr[t].op = "RegisterOrGet" /\ thr[t].pc = "unlock"
        /\ thr[t].ret.chain = entries["f"] /\ IsRegistered("f")
        /\ ChainCount(chains[entries["f"]]) > 0

\* C18: with Register and RegisterOrGet of one name called concurrently, the
\* check and the creation are one atomic step: between two removals of the
\* name at most one Register succeeds and one chain is made for it, and
\* every RegisterOrGet returns the chain the registry holds for the name.
C18_CheckThenCreateAtomic ==
    /\ \A n \in RegistryNames : created[n] <= 1 /\ succeeded[n] <= created[n]
    /\ \A n \in RegistryNames : (n # "" /\ created[n] = 0) => entries[n] = 0
    /\ \A t \in Threads :
          (thr[t].op = "RegisterOrGet" /\ thr[t].pc = "unlock" /\ thr[t].name # "") =>
             thr[t].ret.chain # 0 /\ thr[t].ret.chain = entries[thr[t].name]
    /\ \A t \in Threads :
          (thr[t].op \in {"Register", "RegisterOrGet"} /\ thr[t].pc = "store") =>
             entries[thr[t].name] = 0

\* One goroutine's Register of "f" succeeded while another, which had called
\* RegisterOrGet("f") before the chain existed, still waits for the lock.
C18_Witness ==
    \E t, u \in Threads :
        /\ thr[t].op = "Register" /\ thr[t].name = "f" /\ thr[t].pc = "unlock"
        /\ thr[t].ret.err = Nil
        /\ thr[u].op = "RegisterOrGet" /\ thr[u].name = "f" /\ thr[u].pc = "lock"

\* C19: a goroutine that holds the lock for a write excludes every other
\* goroutine from the registry; only readers are inside together.
C19_WritersExclude ==
    \A t, u \in Threads :
        (t # u /\ InCriticalSection(t) /\ InCriticalSection(u)) =>
            thr[t].op \in ReadOps /\ thr[u].op \in ReadOps

\* A writer is inside while a reader that called the registry waits.
C19_Witness ==
    \E t, u \in Threads :
        /\ thr[t].op = "AddAdvice" /\ thr[t].pc = "store"
        /\ thr[u].op = "GetAdviceCount" /\ thr[u].pc = "lock"

\* C20: AddAdvice of a name that is not registered fails with an error and
\* changes nothing: no entry appears, no chain gains advice.
C20_AddAdviceUnregisteredFails ==
    [][\A t \in Threads :
          (Inside(t, "AddAdvice") /\ ~IsRegistered(thr[t].name)) =>
             /\ entries' = entries /\ chains' = chains
             /\ (thr[t].pc # "unlock" /\ thr'[t] # thr[t]) =>
                   /\ thr'[t].pc = "unlock"
                   /\ thr'[t].ret = [NoReturn EXCEPT
                                        !.err = ErrNotRegistered(thr[t].name)]]_vars

\* AddAdvice("g") returned the error while "f" was registered with advice.
C20_Witness ==
    \E t \in Threads :
        /\ thr[t].op = "AddAdvice" /\ thr[t].pc = "unlock" /\ thr[t].name = "g"
        /\ thr[t].ret.err = ErrNotRegistered("g")
        /\ ~IsRegistered("g") /\ IsRegistered("f") /\ TotalAdvice > 0

\* C21: GetAdviceCount is 0 for a name that is not registered and, for a
\* registered name, the number of AddAdvice calls that succeeded for it since
\* its chain was made, whatever their phases and however the goroutines'
\* calls interleave; it never decreases while the name keeps its chain.
C21_AdviceCountExact ==
    /\ [](/\ \A n \in RegistryNames :
                IF IsRegistered(n)
                THEN ChainCount(chains[entries[n]]) = added[n]
                ELSE added[n] = 0
          /\ \A t \in Threads :
                (thr[t].op = "GetAdviceCount" /\ thr[t].pc = "unlock") =>
                   thr[t].ret.count = added[thr[t].name])
    /\ [][\A n \in RegistryNames :
             (entries[n] # 0 /\ entries'[n] = entries[n]) =>
                ChainCount(chains'[entries[n]]) >= ChainCount(chains[entries[n]])]_vars

\* GetAdviceCount returned 2 for a name whose chain got one Before and one
\* After advice, while another name has none.
C21_Witness ==
    \E t \in Threads :
        /\ thr[t].op = "GetAdviceCount" /\ thr[t].pc = "unlock" /\ thr[t].name = "f"
        /\ thr[t].ret.count = 2
        /\ Len(chains[entries["f"]].before) = 1 /\ Len(chains[entries["f"]].after) = 1
        /\ added["g"] = 0

\* Goroutine t takes the step from pc p of its call of op.
Steps(t, op, p) == thr[t].op = op /\ thr[t].pc = p /\ thr'[t] # thr[t]

\* C22: Unregister removes the name's entry and nothing else, returns no
\* error, and changes nothing when the name has no entry; IsRegistered and
\* GetAdviceChain of a name without entry answer false and "not registered";
\* a later Register of the name succeeds with a new empty chain, whose advice
\* count is 0.
C22_UnregisterRemoves ==
    /\ [][\A t \in Threads :
             /\ Steps(t, "Unregister", "body") =>
                   /\ entries' = [entries EXCEPT ![thr[t].name] = 0]
                   /\ thr'[t].pc = "unlock" /\ thr'[t].ret = NoReturn
                   /\ ~IsRegistered(thr[t].name) => chains' = chains
                   /\ \A n \in RegistryNames \ {thr[t].name} :
                         entries[n] # 0 => chains'[entries[n]] = chains[entries[n]]
             /\ (Steps(t, "Register", "body") /\ thr[t].name # ""
                 /\ ~IsRegistered(thr[t].name)) => thr'[t].pc = "store"
             /\ Steps(t, "Register", "store") =>
                   /\ thr'[t].ret = NoReturn
                   /\ entries'[thr[t].name] \notin {entries[n] : n \in RegistryNames}
                   /\ chains'[entries'[thr[t].name]] = NewAdviceChain
                   /\ added'[thr[t].name] = 0]_vars
    /\ [](\A t \in Threads :
             (thr[t].pc = "unlock" /\ thr[t].name # "" /\ ~IsRegistered(thr[t].name)) =>
                /\ thr[t].op = "IsRegistered" => ~thr[t].ret.exists
                /\ thr[t].op = "GetAdviceChain" =>
                      thr[t].ret = [NoReturn EXCEPT !.err = ErrNotRegistered(thr[t].name)]
                /\ thr[t].op = "GetAdviceCount" => thr[t].ret.count = 0)

\* Unregister("f") has removed the entry of "f" while "g" keeps its chain
\* and advice, and another goroutine's Register("f") waits for the lock.
C22_Witness ==
    \E t, u \in Threads :
        /\ thr[t].op = "Unregister" /\ thr[t].name = "f" /\ thr[t].pc = "unlock"
        /\ ~IsRegistered("f") /\ IsRegistered("g") /\ added["g"] > 0
        /\ thr[u].op = "Register" /\ thr[u].name = "f" /\ thr[u].pc = "lock"

\* C23: whatever the goroutines did before, Count returns the number of
\* registered names, ListRegistered returns exactly those names, each once,
\* IsRegistered answers true exactly for them, and when Clear has run no
\* name is registered: Count is 0 and the list is empty.
C23_QueriesAgree ==
    \A t \in Threads :
        thr[t].pc = "unlock" =>
            /\ thr[t].op = "Count" => thr[t].ret.count = Cardinality(RegisteredNames)
            /\ thr[t].op = "ListRegistered" =>
                  /\ Len(thr[t].ret.names) = Cardinality(RegisteredNames)
                  /\ {thr[t].ret.names[i] : i \in DOMAIN thr[t].ret.names} = RegisteredNames
                  /\ \A i, j \in DOMAIN thr[t].ret.names :
                        thr[t].ret.names[i] = thr[t].ret.names[j] => i = j
            /\ thr[t].op = "IsRegistered" =>
                  thr[t].ret.exists = (thr[t].name \in RegisteredNames)
            /\ thr[t].op = "Clear" =>
                  /\ RegisteredNames = {}
                  /\ \A n \in RegistryNames : ~IsRegistered(n)

\* ListRegistered returned both names while both were registered, one of
\* them with advice.
C23_Witness ==
    \E t \in Threads :
        /\ thr[t].op = "ListRegistered" /\ thr[t].pc = "unlock"
        /\ Len(thr[t].ret.names) = 2
        /\ RegisteredNames = {"f", "g"} /\ TotalAdvice > 0

\* The calls that reject the empty name.
RejectsEmptyName == {"Register", "RegisterOrGet", "AddAdvice", "GetAdviceChain"}

\* C24: the empty name is never a key of the registry: Register, AddAdvice
\* and GetAdviceChain of "" return the "cannot be empty" error, RegisterOrGet
\* of "" panics, none of them changes the registry, and IsRegistered("") is
\* false in every reachable state.
C24_EmptyNameNeverRegistered ==
    /\ [](/\ ~IsRegistered("")
          /\ \A t \in Threads :
                (thr[t].pc = "unlock" /\ thr[t].name = "") =>
                   /\ thr[t].op \in {"Register", "AddAdvice", "GetAdviceChain"} =>
                         thr[t].ret = [NoReturn EXCEPT !.err = ErrEmptyName]
                   /\ thr[t].op = "RegisterOrGet" =>
                         thr[t].ret = [NoReturn EXCEPT !.panic = ErrEmptyName]
                   /\ thr[t].op = "IsRegistered" => ~thr[t].ret.exists)
    /\ [][\A t \in Threads :
             (thr[t].op \in RejectsEmptyName /\ thr[t].name = "" /\ thr'[t] # thr[t]) =>
                /\ entries' = entries /\ chains' = chains
                /\ thr[t].pc = "body" => thr'[t].pc = "unlock"]_vars

\* RegisterOrGet("") has panicked while the registry holds a name and advice.
C24_Witness ==
    \E t \in Threads :
        /\ thr[t].op = "RegisterOrGet" /\ thr[t].name = "" /\ thr[t].pc = "unlock"
        /\ thr[t].ret.panic = ErrEmptyName
        /\ IsRegistered("f") /\ TotalAdvice > 0

\* The error Register or AddAdvice returns in the present state of the
\* registry, Nil when it succeeds.
RegistryError(op, name) ==
    IF name = "" THEN ErrEmptyName
    ELSE IF op = "Register" /\ IsRegistered(name) THEN ErrAlreadyRegistered(name)
    ELSE IF op = "AddAdvice" /\ ~IsRegistered(name) THEN ErrNotRegistered(name)
    ELSE Nil

\* C25: MustRegister and MustAddAdvice panic with the error exactly when
\* Register (empty or registered name) or AddAdvice (empty or unregistered
\* name) returns one, the registry being unchanged; otherwise they do not
\* panic and the name has got its new empty chain, or its chain one more
\* advice.
C25_MustVariantsAbort ==
    /\ [](\A t \in Threads :
             (thr[t].must /\ thr[t].pc = "mustDone") => thr[t].ret.panic = thr[t].ret.err)
    /\ [][\A t \in Threads :
             (thr[t].must /\ thr'[t] # thr[t]) =>
                /\ thr[t].pc = "body" =>
                      /\ entries' = entries /\ chains' = chains
                      /\ IF RegistryError(thr[t].op, thr[t].name) # Nil
                         THEN /\ thr'[t].pc = "unlock"
                              /\ thr'[t].ret.err = RegistryError(thr[t].op, thr[t].name)
                         ELSE thr'[t].pc = "store"
                /\ thr[t].pc = "store" =>
                      /\ thr'[t].pc = "unlock" /\ thr'[t].ret.err = Nil
                      /\ thr[t].op = "Register" =>
                            /\ entries[thr[t].name] = 0
                            /\ chains'[entries'[thr[t].name]] = NewAdviceChain
                      /\ thr[t].op = "AddAdvice" =>
                            /\ entries' = entries
                            /\ ChainCount(chains'[entries[thr[t].name]])
                                  = ChainCount(chains[entries[thr[t].name]]) + 1
                /\ thr[t].pc \in {"unlock", "must", "mustDone"} =>
                      /\ entries' = entries /\ chains' = chains
                      /\ thr[t].pc # "mustDone" => thr'[t].ret.err = thr[t].ret.err]_vars

\* MustAddAdvice("g") has panicked with "not registered" while "f" is
\* registered with advice.
C25_Witness ==
    \E t \in Threads :
        /\ thr[t].must /\ thr[t].pc = "mustDone"
        /\ thr[t].op = "AddAdvice" /\ thr[t].name = "g"
        /\ thr[t].ret.panic = ErrNotRegistered("g")
        /\ IsRegistered("f") /\ TotalAdvice > 0

\* The context after the first k handlers of the list have each run once,
\* in the order of the list.
RECURSIVE Applied(_, _, _)
Applied(sorted, k, c) ==
    IF k = 0 THEN c ELSE HandlerCtx(sorted[k].Handler, Applied(sorted, k - 1, c))

\* The positions of the handlers of a list that return an error.
Failing(sorted) == {i \in DOMAIN sorted : HandlerErr(sorted[i].Handler) # Nil}

\* C26: a phase whose handler returns an error stops there: the phase
\* returns that error, the handlers before it in the execution order have
\* each run once and no handler after it has run; a phase without such a
\* handler runs all its handlers and returns no error.
C26_PhaseStopsAtFirstError ==
    \A n \in DOMAIN trace :
        (Guarded /\ trace[n].phase \in AdviceTypes) =>
            LET sorted == SortedAdvice(PhaseList(chains[chain], trace[n].phase))
                first == IF Failing(sorted) = {} THEN Len(sorted)
                         ELSE CHOOSE i \in Failing(sorted) :
                                 \A j \in Failing(sorted) : i <= j
            IN /\ trace[n].ran = first
               /\ trace[n].out = Applied(sorted, first, trace[n].in)
               /\ trace[n].ret = IF Failing(sorted) = {} THEN Nil ELSE HandlerError

\* A Before phase of three handlers stopped at its failing handler, with a
\* handler after it that would have stored an error in the context.
C26_Witness ==
    \E n \in DOMAIN trace :
        /\ Guarded /\ trace[n].phase = Before
        /\ Len(chains[chain].before) = 3
        /\ trace[n].ret = HandlerError
        /\ trace[n].ran < 3
        /\ \E i \in DOMAIN chains[chain].before :
              chains[chain].before[i].Handler = "setErr"
        /\ trace[n].out.Error = Nil

\* The value the results map holds at index i after the first n calls: that
\* of the last SetResult(i, v) among them with i >= 0, Nil (absent) if none.
RECURSIVE LastSet(_, _)
LastSet(n, i) ==
    IF n = 0 \/ i < 0 THEN Nil
    ELSE IF trace[n].phase = "SetResult" /\ trace[n].ran = i THEN trace[n].ret
    ELSE LastSet(n - 1, i)

\* The length of the results after the first n calls: one more than the
\* largest index set.
RECURSIVE LengthAfter(_)
LengthAfter(n) ==
    IF n = 0 THEN 0
    ELSE LET before == LengthAfter(n - 1)
         IN IF trace[n].phase = "SetResult" /\ trace[n].ran + 1 > before
            THEN trace[n].ran + 1 ELSE before

\* C27: the results of a Context behave as a map from non-negative index to
\* value with default absent: GetResult(i) returns the value of the last
\* SetResult(i, v), absent for a negative or never set index, and changes
\* nothing; SetResult with a negative index changes nothing; SetResult(i, v)
\* with i >= 0 keeps every other index's value and makes the length
\* max(old length, i + 1).
C27_ResultsAreAMap ==
    /\ \A i \in Indexes \cup {3} : GetResult(ctx, i) = LastSet(Len(trace), i)
    /\ Len(ctx.Results) = LengthAfter(Len(trace))
    /\ \A n \in DOMAIN trace :
          LET call == trace[n] IN
          /\ call.phase = "GetResult" =>
                call.out = call.in /\ call.ret = LastSet(n - 1, call.ran)
          /\ (call.phase = "SetResult" /\ call.ran < 0) => call.out = call.in
          /\ (call.phase = "SetResult" /\ call.ran >= 0) =>
                /\ GetResult(call.out, call.ran) = call.ret
                /\ Len(call.out.Results)
                      = IF Len(call.in.Results) > call.ran + 1
                        THEN Len(call.in.Results) ELSE call.ran + 1
                /\ \A j \in (Indexes \cup {3}) \ {call.ran} :
                      GetResult(call.out, j) = GetResult(call.in, j)

\* Index 2 was set on an empty context, leaving a gap, index 0 was set
\* twice, and GetResult(0) returned the second value.
C27_Witness ==
    /\ Len(trace) = 4
    /\ trace[1].phase = "SetResult" /\ trace[1].ran = 2 /\ trace[1].ret = TargetValue
    /\ trace[2].phase = "SetResult" /\ trace[2].ran = 0 /\ trace[2].ret = TargetValue
    /\ trace[3].phase = "SetResult" /\ trace[3].ran = 0 /\ trace[3].ret = AdviceValue
    /\ trace[4].phase = "GetResult" /\ trace[4].ran = 0 /\ trace[4].ret = AdviceValue
    /\ ctx.Results = <<AdviceValue, Nil, TargetValue>>

\* What a step of the invocation received is what the step before it left;
\* the recover function has stored the panic value in between.
HandedOver(prev, next) ==
    IF next.phase = AfterThrowing
    THEN next.in = [prev.out EXCEPT !.PanicValue = next.in.PanicValue]
    ELSE next.in = prev.out

\* C28: within one invocation every handler of every phase and the target
\* closure work on the same Context: each handler receives what the handler
\* before it left, each phase and the target receive what the step before
\* left, so that a metadata entry, result or error written earlier reaches
\* every later phase unchanged; the Context's function name and arguments
\* are the adapter's name and the call's arguments in order.
C28_ContextShared ==
    pc # "idle" =>
        /\ ctx.FunctionName = fn /\ ctx.Args = CallArgs(adapter)
        /\ trace # <<>> => ctx = trace[Len(trace)].out
        /\ \A n \in DOMAIN trace :
              /\ trace[n].in.FunctionName = fn
              /\ trace[n].in.Args = CallArgs(adapter)
              /\ n > 1 => HandedOver(trace[n - 1], trace[n])
              /\ trace[n].phase \in AdviceTypes =>
                    trace[n].out
                        = Applied(SortedAdvice(PhaseList(chains[chain], trace[n].phase)),
                                  trace[n].ran, trace[n].in)
              /\ \A k \in 1..(n - 1) :
                    /\ trace[k].out.Metadata \subseteq trace[n].in.Metadata
                    /\ (trace[k].phase = "Target" /\ trace[k].out.Results # <<>>)
                          => trace[n].in.Results = trace[k].out.Results
                    /\ (trace[k].phase = "Target" /\ trace[k].ret # Nil)
                          => trace[n].in.Error = trace[k].ret

\* A call of Wrap2RE("f") whose Before handler stored userId: the target
\* got the entry and returned an error, and After got the entry, the
\* target's result and the target's error, under the name f with (a, b).
C28_Witness ==
    /\ pc = "done" /\ adapter = "Wrap2RE" /\ target = "err"
    /\ Phases = <<Before, Around, "Target", After>>
    /\ trace[1].in.Metadata = NoMetadata
    /\ trace[1].out.Metadata = {<<"userId", "user_123">>}
    /\ trace[3].in.Metadata = {<<"userId", "user_123">>}
    /\ trace[4].in.Metadata = {<<"userId", "user_123">>}
    /\ trace[4].in.Error = TargetError
    /\ Len(trace[4].in.Results) = 1
    /\ trace[4].in.FunctionName = "f" /\ trace[4].in.Args = <<"a", "b">>

\* Nothing has been written to the Context.
Fresh(c) ==
    /\ c.Metadata = NoMetadata
    /\ c.Results = <<>>
    /\ c.Error = Nil
    /\ c.PanicValue = Nil
    /\ ~c.Skipped

BeforeOrAroundFailed ==
    \E i \in DOMAIN trace : trace[i].phase \in {Before, Around} /\ trace[i].ret # Nil

\* The engine found the call skipped after the Around phase.
CallSkipped == \E i \in DOMAIN trace : trace[i].phase = Around /\ trace[i].out.Skipped

\* C30: the engine never retries: in one adapter invocation the target is
\* invoked at most once, and when the engine is left it has been invoked
\* exactly once if no Before/Around handler returned an error and the call
\* was not skipped, which includes every invocation of an unregistered name.
C30_TargetAtMostOnce ==
    /\ calls <= 1
    /\ Count("Target") = calls
    /\ (EngineLeft /\ ~BeforeOrAroundFailed /\ ~CallSkipped) => calls = 1
    /\ (EngineLeft /\ ~Guarded) => calls = 1

\* A registered name whose Before and Around phases ran without error or
\* skip: the target returned an error and was invoked once, not again.
C30_Witness ==
    /\ pc = "done" /\ Guarded /\ target = "err"
    /\ Count(Before) = 1 /\ Count(Around) = 1
    /\ ~BeforeOrAroundFailed /\ ~CallSkipped
    /\ calls = 1 /\ Count("Target") = 1
    /\ err = TargetError

\* The phases the history holds after its event i.
PhasesAfter(i) == [k \in 1..(Len(trace) - i) |-> trace[i + k].phase]

\* C31: on a skipped call (the Around phase returned no error and left the
\* Context skipped) the AfterReturning phase runs exactly once, before
\* After, if and only if the Context then holds no error and no panic value;
\* with an error stored by the skipping Around advice only After runs.  The
\* target is not invoked either way.
C31_SkippedAfterReturning ==
    \A i \in DOMAIN trace :
        (EngineLeft /\ trace[i].phase = Around /\ trace[i].ret = Nil
            /\ trace[i].out.Skipped) =>
            /\ calls = 0
            /\ IF trace[i].out.Error = Nil /\ trace[i].out.PanicValue = Nil
               THEN PhasesAfter(i) = <<AfterReturning, After>>
               ELSE PhasesAfter(i) = <<After>>

\* Around advice skipped the target and stored an error: the engine is left
\* after Around and After alone.
C31_Witness ==
    /\ pc = "done" /\ Guarded /\ outcome = "return"
    /\ Phases = <<Before, Around, After>>
    /\ trace[2].out.Skipped /\ trace[2].out.Error = AdviceError
    /\ trace[2].ret = Nil
    /\ calls = 0

\* Around advice stored a result and left the call unskipped: the event of
\* such an Around phase.
AroundSetResultOnly(i) ==
    /\ trace[i].phase = Around /\ trace[i].ret = Nil
    /\ ~trace[i].out.Skipped
    /\ GetResult(trace[i].out, 0) = AdviceValue

\* C32: Around advice that sets a result without setting skipped does not
\* prevent the target from running: the target is invoked next, the result
\* of a value-returning target overwrites result slot 0, and the value the
\* adapter returns to its caller is the target's result, not the one the
\* Around advice supplied.
C32_TargetResultWins ==
    \A i \in DOMAIN trace :
        AroundSetResultOnly(i) =>
            /\ pc # "target" => (Len(trace) > i /\ trace[i + 1].phase = "Target")
            /\ EngineLeft => calls = 1
            /\ (Len(trace) > i /\ ReturnsValue(adapter) /\ target # "panic") =>
                  GetResult(trace[i + 1].out, 0) = TargetResult
            /\ (pc = "done" /\ outcome = "return" /\ ReturnsValue(adapter)) =>
                  result = TargetResult

\* C33: AfterReturning and AfterThrowing never both run in one invocation
\* (handlers return, they do not panic): AfterThrowing runs only with a
\* fault captured (a panic of the target, an error of a Before or Around
\* handler), AfterReturning only when the target returned or was skipped
\* and the Context holds neither an error nor a panic value; after a panic
\* of the target AfterReturning never runs, although the Context's error is
\* empty.
C33_ReturningXorThrowing ==
    /\ ~(Count(AfterReturning) > 0 /\ Count(AfterThrowing) > 0)
    /\ \A n \in DOMAIN trace :
          /\ trace[n].phase = AfterThrowing =>
                /\ Raised # Nil
                /\ trace[n].in.PanicValue = Raised
          /\ trace[n].phase = AfterReturning =>
                /\ Raised = Nil
                /\ trace[n].in.Error = Nil /\ trace[n].in.PanicValue = Nil
                /\ n > 1
                /\ \/ trace[n - 1].phase = "Target"
                   \/ trace[n - 1].phase = Around /\ trace[n - 1].out.Skipped
    /\ (calls = 1 /\ target = "panic") => Count(AfterReturning) = 0

\* The target panicked with an empty Context error: AfterThrowing and After
\* have run, AfterReturning has not.
C33_Witness ==
    /\ pc = "done" /\ target = "panic" /\ calls = 1
    /\ Phases = <<Before, Around, "Target", AfterThrowing, After>>
    /\ trace[4].in.Error = Nil
    /\ trace[4].in.PanicValue = PanicV
    /\ outcome = "panic"

\* The log holds every advice of the list exactly once.
LoggedOnce(log, list) ==
    /\ Len(log) = Len(list)
    /\ \A k \in DOMAIN list :
          Cardinality({i \in DOMAIN log : log[i] = <<list[k].Priority, list[k].Tag>>}) = 1

\* C34: when no handler of a phase returns an error, one execution of the
\* phase invokes every advice added to that phase exactly once (the sort
\* permutes, it neither drops nor duplicates), and it leaves the sequences
\* the chain stores as they were, so that other phases and later executions
\* are not affected.
C34_EveryAdviceOnce ==
    [][\A ph \in AdviceTypes :
          ExecuteLogged(ph) =>
              /\ LoggedOnce(order', PhaseList(chains[1], ph))
              /\ chains' = chains]_vars

\* Three advice were executed in an order that is not their insertion
\* order, each once, and the chain still stores them in insertion order.
C34_Witness ==
    \E ph \in AdviceTypes :
        /\ Len(PhaseList(chains[1], ph)) = 3
        /\ LoggedOnce(order, PhaseList(chains[1], ph))
        /\ order[2][2] # 2
        /\ \A k \in 1..3 : PhaseList(chains[1], ph)[k].Tag = k

\* C35: the skipped flag is consulted only when the chain has Around advice:
\* with skipped set by a Before handler and no Around advice the target is
\* still invoked, right after Before; with Around advice whose handlers
\* return no error, even handlers that never touch the flag, the target is
\* bypassed.
C35_SkipNeedsAround ==
    \A i \in DOMAIN trace :
        (Guarded /\ trace[i].phase = Before /\ trace[i].ret = Nil
            /\ trace[i].out.Skipped /\ pc \notin {"checkAround", "around", "target"}) =>
            IF HasAround(chains[chain])
            THEN /\ Len(trace) > i /\ trace[i + 1].phase = Around
                 /\ trace[i + 1].ret = Nil => calls = 0 /\ Count("Target") = 0
            ELSE /\ Count(Around) = 0
                 /\ Len(trace) > i /\ trace[i + 1].phase = "Target"
                 /\ calls = 1

\* A chain without Around advice whose Before handler set skipped: the
\* target was invoked and the call returned.
C35_Witness ==
    /\ pc = "done" /\ Guarded /\ outcome = "return"
    /\ ~HasAround(chains[chain])
    /\ Phases = <<Before, "Target", AfterReturning, After>>
    /\ trace[1].out.Skipped
    /\ calls = 1

\* C36: the chain is looked up in the registry at each invocation, not when
\* the adapter is built: a call takes the fast path exactly when its name
\* has no entry at the time of the call, and runs under the chain the entry
\* holds otherwise; so the calls of an adapter go unguarded until its name
\* is registered, run the advice from then on, and go unguarded again after
\* Unregister(name) or Clear().
C36_LookupAtEachCall ==
    /\ [](pc # "idle" =>
            /\ chain = entries[fn]
            /\ ~Guarded => \A i \in DOMAIN trace : trace[i].phase = "Target"
            /\ (Guarded /\ EngineLeft) => Count(After) = 1)
    /\ [][\A n \in Names, a \in Adapters, t \in {"ok", "err", "panic"} :
            Call(n, a, t) =>
                IF entries[n] = 0
                THEN pc' = "fast" /\ chain' = 0
                ELSE pc' = "before" /\ chain' = entries[n]]_vars

\* "f" was registered twice and removed twice; the call of its adapter made
\* after that ran the target alone.
C36_Witness ==
    /\ pc = "done" /\ fn = "f" /\ ~Guarded
    /\ Len(chains) = 2
    /\ entries["f"] = 0
    /\ Phases = <<"Target">>

\* C40: the panic of RegisterOrGet("") leaves the registry unchanged and
\* unlocked: the step that panics changes no entry and no chain, the
\* deferred Unlock that runs as the panic propagates releases the write
\* lock, and the mutex is never held by a goroutine that has left the
\* registry, so that later operations of any goroutine are not blocked by
\* the aborted call and find the entries it found.
C40_PanicReleasesLock ==
    /\ [](/\ mu.writer # 0 => InCriticalSection(mu.writer)
          /\ \A t \in mu.readers : InCriticalSection(t))
    /\ [][\A t \in Threads :
            /\ (thr[t].op = "RegisterOrGet" /\ thr[t].name = "" /\ thr[t].pc = "body"
                    /\ thr'[t] # thr[t]) =>
                  /\ thr'[t].pc = "unlock"
                  /\ thr'[t].ret.panic = ErrEmptyName
                  /\ mu'.writer = t
                  /\ regVars' = regVars
            /\ (thr[t].pc = "unlock" /\ thr[t].ret.panic # Nil /\ thr'[t] # thr[t]) =>
                  /\ thr'[t].pc = "idle"
                  /\ mu' = [writer |-> 0, readers |-> {}]
                  /\ regVars' = regVars]_vars

\* RegisterOrGet("") has panicked in a registry that holds "f" with advice,
\* its deferred Unlock has not run yet, and another goroutine waits for the
\* mutex.
C40_Witness ==
    \E t, u \in Threads :
        /\ thr[t].op = "RegisterOrGet" /\ thr[t].name = "" /\ thr[t].pc = "unlock"
        /\ thr[t].ret.panic = ErrEmptyName
        /\ mu.writer = t
        /\ thr[u].pc = "lock" /\ thr[u].op = "GetAdviceCount" /\ thr[u].name = "f"
        /\ IsRegistered("f") /\ ChainCount(chains[entries["f"]]) > 0

\* The last event of the history after the step.
LastEvent == trace[Len(trace)]

\* The invocation in flight holds a chain the registry no longer has under
\* the invocation's name.
HoldsDropped == pc \notin {"idle", "lookup"} /\ chain # 0 /\ entries[fn] # chain

\* C38: an invocation that found a chain keeps that chain until it ends.  A
\* step of Unregister or Clear made while the invocation is in flight changes
\* neither the chain the invocation holds nor the advice in it, and every
\* phase that runs afterwards, AfterThrowing and After included, runs the
\* advice of that chain.
C38_KeepsChain ==
    [][/\ (pc \notin {"idle", "lookup"} /\ pc' # "idle") => chain' = chain
       /\ (pc \notin {"idle", "lookup"} /\ chain # 0 /\ entries' # entries) =>
              chains'[chain] = chains[chain]
       /\ (HoldsDropped /\ Len(trace') = Len(trace) + 1 /\ LastEvent'.phase \in AdviceTypes) =>
              \E seen \in Visible :
                 LastEvent'.ran = Len(PhaseList(seen, LastEvent'.phase))]_vars

\* The other goroutine unregistered "f" while the target ran; the target
\* panicked, and AfterThrowing and After each ran the advice of the chain.
C38_Witness ==
    /\ pc = "done" /\ outcome = "panic" /\ nested = 0
    /\ entries[fn] = 0
    /\ Len(trace) = 5
    /\ trace[2].phase \in {"Unregister", "Clear"} /\ trace[2].ran = 2
    /\ trace[3].phase = "Target"
    /\ trace[4].phase = AfterThrowing /\ trace[4].ran = 1
    /\ trace[5].phase = After /\ trace[5].ran = 1
\* The step is a phase of the invocation running its handlers.
PhaseRuns == Len(trace') = Len(trace) + 1 /\ LastEvent'.phase \in AdviceTypes

\* The number of handlers the phase of the step ran is the length the list
\* of that phase has in ac.
RanListOf(ac) == LastEvent'.ran = Len(PhaseList(ac, LastEvent'.phase))

\* C39 as stated: advice added to the chain after the lookup and before a
\* phase starts is run by that phase, so a phase that starts runs all the
\* advice its list holds at that moment, and a phase already started runs
\* the list it started with.
C39_AddedAdviceRuns ==
    [][PhaseRuns =>
          IF copied = {} THEN RanListOf(chains[chain])
          ELSE \E started \in copied : RanListOf(started)]_vars

\* C39, amended: a phase that starts runs all the advice its list holds at
\* that moment if every append to the chain was made by the invoking
\* goroutine (a handler or the target) or is ordered before the phase by a
\* registry call of the invoking goroutine; after an append by another
\* goroutine that nothing orders before the phase, the phase runs the list
\* with or without the appended advice.  A phase already started runs the
\* list it started with.
C39_AddedAdviceRunsIfOrdered ==
    [][PhaseRuns =>
          IF copied # {} THEN \E started \in copied : RanListOf(started)
          ELSE IF unsynced = {} THEN RanListOf(chains[chain])
          ELSE \E seen \in {chains[chain]} \cup unsynced : RanListOf(seen)]_vars

\* The target added After advice to the chain of its own invocation, and the
\* After phase of that invocation ran it with the advice the chain had.
C39_Witness ==
    /\ pc = "done" /\ outcome = "return" /\ nested = 1
    /\ Len(trace) = 5
    /\ trace[1].phase = Before
    /\ trace[2].phase = "AddAdvice" /\ trace[2].ran = Invoker
    /\ trace[3].phase = "Target"
    /\ trace[4].phase = AfterReturning
    /\ trace[5].phase = After /\ trace[5].ran = 2
\* Goroutine t has the registry's mutex.
HoldsMutex(t) == mu.writer = t \/ t \in mu.readers

\* C37: the engine holds no registry lock while handlers or the target run:
\* the invoking goroutine has the mutex only inside a registry method.  A
\* handler or target that calls Register, AddAdvice, Unregister, Clear or a
\* query for the same name, or an adapter of the same name (its lookup), gets
\* the mutex and returns, and every invocation that began comes to its end,
\* by return or by panic.
C37_NoLockWhileRunning ==
    /\ [](HoldsMutex(Invoker) => InCriticalSection(Invoker))
    /\ [](pc \in RunningSteps /\ thr[Invoker].pc = "idle" => ~HoldsMutex(Invoker))
    /\ (pc = "lookup") ~> (pc = "done")

\* A handler or the target called a method that takes the write lock for
\* the name of its own invocation, and the invocation came to its end.
C37_Witness ==
    /\ pc = "done" /\ chain # 0 /\ nested = 1
    /\ \E i \in DOMAIN trace :
          trace[i].phase \in {"AddAdvice", "Unregister", "Clear"} /\ trace[i].ran = Invoker
====
